---- MODULE Spec2Model ----
(***************************************************************************)
(* Semantic Sonifier: the image -> caption -> mood -> prompt -> music      *)
(* pipeline of src/models/sonifier.py and the model wrappers it drives.    *)
(*                                                                         *)
(* Text is modelled as a sequence of one-character strings, so that        *)
(* lower-casing, substring search, stripping and joining are computed the  *)
(* way the Python code computes them.  Confidences are hundredths          *)
(* (0.2 is 20).  An optional value (Python None) is a sequence of length   *)
(* 0 or 1.                                                                 *)
(***************************************************************************)
EXTENDS Integers, Sequences, FiniteSets, TLC

VARIABLES
    is_initialized,   \* SemanticSonifier._is_initialized
    blip_model,       \* ImageAnalyzer.blip_model: "None", "unloaded" or "loaded"
    clip_analyzer,    \* ImageAnalyzer.clip_analyzer
    music_generator,  \* MusicOrchestrator.music_generator
    pc,               \* position inside process_image
    image_path,       \* argument of the running process_image call
    duration,         \* argument of the running process_image call (optional)
    caption,          \* optional: result of BLIP2Model.process
    mood,             \* optional: result of CLIPMoodAnalyzer.process
    prompt,           \* optional: result of _create_intelligent_prompt
    gen_arg,          \* optional: `duration` argument of the next MusicGenerator.process frame
    attempts,         \* the model.generate calls of this request, in order
    calls,            \* the collaborator calls of this request, in order
    faults,           \* what went wrong inside the caption and mood calls
    outcome,          \* what the last process_image call returned or raised
    to_save,          \* the fields of `result` the saving code reads
    wav_file,         \* optional: what wavfile.write has written
    save_outcome,     \* what the saving code returned or raised
    config,           \* utils/config.py: the global `config` object
    yaml_files,       \* the YAML documents on disk, by path (optional each)
    config_outcome,   \* what the last save_config / load_config call returned or raised
    hardware,         \* what torch detects: CUDA device count, MPS availability
    device_manager,   \* optional: the DeviceManager object constructed
    device,           \* optional: what get_device returned
    model,            \* BaseModel.model of one wrapper: "None" or "set"
    processor,        \* BaseModel.processor of that wrapper
    block,            \* is control inside a `with` block on that wrapper
    lifecycle_log,    \* the calls made on that wrapper, in order
    batch_paths,      \* batch_process: the image_paths argument
    batch_results,    \* batch_process: the `results` list
    batch_pc,         \* batch_process: position in the loop
    requests,         \* API: the POST /process requests, by request id
    uploads,          \* API: the files in UPLOAD_DIR, name -> owner
    outputs,          \* API: the files in OUTPUT_DIR, name -> owner
    service_sonifier, \* API: SonifierService.sonifier, "None" or "created"
    instances,        \* API: how many SemanticSonifier objects were constructed
    running           \* API: the request whose coroutine holds the event loop (0: none)

vars == <<is_initialized, blip_model, clip_analyzer, music_generator, pc,
          image_path, duration, caption, mood, prompt, gen_arg,
          attempts, calls, faults, outcome, to_save, wav_file, save_outcome,
          config, yaml_files, config_outcome, hardware, device_manager, device,
          model, processor, block, lifecycle_log,
          batch_paths, batch_results, batch_pc,
          requests, uploads, outputs, service_sonifier, instances, running>>

\* the variables of the code that persists a result
saving == <<to_save, wav_file, save_outcome>>
\* the variables of utils/config.py
configuration == <<config, yaml_files, config_outcome>>
\* the variables of utils/device_manager.py
devices == <<hardware, device_manager, device>>
\* the variables of one BaseModel used as a context manager
lifecycle == <<model, processor, block, lifecycle_log>>
\* the variables of SemanticSonifier.batch_process
batch == <<batch_paths, batch_results, batch_pc>>
\* the variables of api/app.py
service == <<requests, uploads, outputs, service_sonifier, instances, running>>
\* everything but the pipeline and the saving code
elsewhere == <<configuration, devices, lifecycle, batch, service>>

(***************************************************************************)
(* Bounds of the model.                                                    *)
(***************************************************************************)
\* requested durations range over -MaxBelow .. max_duration + MaxAbove
MaxBelow == 1
MaxAbove == 2
\* one request far above the maximum (the spec's process(img, 1000))
FarAbove == 1000
\* the audio model may return up to MaxDrift tokens less or more audio than
\* asked for
MaxDrift == 1

(***************************************************************************)
(* Configuration (src/utils/config.py) and literals of the code.           *)
(***************************************************************************)
sample_rate == 32000
default_duration == 10
max_duration == 30
\* int(duration * 50)
TokensPerSecond == 50
\* if duration > 5: retry
RetryAbove == 5
\* mood_scores[top_moods[1]] > 0.2, in hundredths
SecondMoodThreshold == 20
\* def process(self, image_path, top_k = 3)
top_k == 3
\* samples the audio model yields per generated token
SamplesPerToken == sample_rate \div TokensPerSecond

None == <<>>
Some(x) == <<x>>
Val(o) == o[1]

\* Python truthiness of an optional int, and `a or b`
Truthy(o) == o /= None /\ Val(o) /= 0
OrElse(o, dflt) == IF Truthy(o) THEN Val(o) ELSE dflt

(***************************************************************************)
(* Text.                                                                   *)
(***************************************************************************)
UpperChars == <<"A", "B", "C", "D", "E", "F", "G", "H", "I", "J", "K", "L", "M", "N", "O", "P", "Q", "R", "S", "T", "U", "V", "W", "X", "Y", "Z">>
LowerChars == <<"a", "b", "c", "d", "e", "f", "g", "h", "i", "j", "k", "l", "m", "n", "o", "p", "q", "r", "s", "t", "u", "v", "w", "x", "y", "z">>
Whitespace == {" ", "\n", "\t"}

\* str.lower(), one character
LowerChar(c) ==
    IF \E i \in 1..Len(UpperChars) : UpperChars[i] = c
    THEN LowerChars[CHOOSE i \in 1..Len(UpperChars) : UpperChars[i] = c]
    ELSE c

\* str.lower()
Lower(s) == [i \in 1..Len(s) |-> LowerChar(s[i])]

\* Python `needle in hay`
Contains(hay, needle) ==
    \E i \in 0..(Len(hay) - Len(needle)) :
        SubSeq(hay, i + 1, i + Len(needle)) = needle

StartsWith(s, p) == Len(p) <= Len(s) /\ SubSeq(s, 1, Len(p)) = p

\* str.strip()
RECURSIVE Strip(_)
Strip(s) ==
    IF s = <<>> THEN s
    ELSE IF Head(s) \in Whitespace THEN Strip(Tail(s))
    ELSE IF s[Len(s)] \in Whitespace THEN Strip(SubSeq(s, 1, Len(s) - 1))
    ELSE s

\* variant: the separator follows every part, the last one included
RECURSIVE JoinAfterEach(_, _)
JoinAfterEach(sep, parts) ==
    IF parts = <<>> THEN <<>>
    ELSE parts[1] \o sep \o JoinAfterEach(sep, Tail(parts))

\* sep.join(parts)
RECURSIVE Join(_, _)
Join(sep, parts) ==
    IF parts = <<>> THEN <<>>
    ELSE IF Len(parts) = 1 THEN parts[1]
    ELSE parts[1] \o sep \o Join(sep, Tail(parts))

Range(s) == { s[i] : i \in 1..Len(s) }

\* any(word in text for word in words)
AnyWordIn(words, text) == \E w \in words : Contains(text, w)

(***************************************************************************)
(* ModelConfig.mood_tags                                                   *)
(***************************************************************************)
mood_tags == <<
    <<"s", "e", "r", "e", "n", "e">>, <<"h", "a", "p", "p", "y">>, <<"m", "e", "l", "a", "n", "c", "h", "o", "l", "i", "c">>, <<"e", "n", "e", "r", "g", "e", "t", "i", "c">>, <<"p", "e", "a", "c", "e", "f", "u", "l">>,
    <<"c", "h", "a", "o", "t", "i", "c">>, <<"m", "y", "s", "t", "e", "r", "i", "o", "u", "s">>, <<"r", "o", "m", "a", "n", "t", "i", "c">>, <<"d", "r", "a", "m", "a", "t", "i", "c">>, <<"c", "a", "l", "m">>,
    <<"j", "o", "y", "f", "u", "l">>, <<"s", "o", "m", "b", "e", "r">>, <<"i", "n", "t", "e", "n", "s", "e">>, <<"l", "i", "g", "h", "t">>, <<"d", "a", "r", "k">>, <<"d", "r", "e", "a", "m", "y">> >>

NEUTRAL == <<"n", "e", "u", "t", "r", "a", "l">>
AN_IMAGE == <<"a", "n", " ", "i", "m", "a", "g", "e">>

(***************************************************************************)
(* MusicOrchestrator._get_genre_hint                                       *)
(***************************************************************************)
NatureWords == {<<"f", "o", "r", "e", "s", "t">>, <<"m", "o", "u", "n", "t", "a", "i", "n">>, <<"o", "c", "e", "a", "n">>, <<"r", "i", "v", "e", "r">>, <<"n", "a", "t", "u", "r", "e">>}
UrbanWords == {<<"c", "i", "t", "y">>, <<"b", "u", "i", "l", "d", "i", "n", "g">>, <<"s", "t", "r", "e", "e", "t">>, <<"u", "r", "b", "a", "n">>}
PeopleWords == {<<"p", "e", "r", "s", "o", "n">>, <<"p", "e", "o", "p", "l", "e">>, <<"p", "o", "r", "t", "r", "a", "i", "t">>, <<"f", "a", "c", "e">>}

HINT_NATURE_CALM == <<"a", "m", "b", "i", "e", "n", "t", " ", "p", "a", "d", "s", " ", "a", "n", "d", " ", "g", "e", "n", "t", "l", "e", " ", "f", "l", "u", "t", "e", "s">>
HINT_NATURE_DRAMATIC == <<"e", "p", "i", "c", " ", "o", "r", "c", "h", "e", "s", "t", "r", "a", "l", " ", "s", "t", "r", "i", "n", "g", "s", " ", "a", "n", "d", " ", "h", "o", "r", "n", "s">>
HINT_URBAN_ENERGETIC == <<"e", "l", "e", "c", "t", "r", "o", "n", "i", "c", " ", "b", "e", "a", "t", "s", " ", "a", "n", "d", " ", "s", "y", "n", "t", "h", " ", "b", "a", "s", "s">>
HINT_URBAN_SOMBER == <<"s", "l", "o", "w", " ", "p", "i", "a", "n", "o", " ", "a", "n", "d", " ", "d", "i", "s", "t", "a", "n", "t", " ", "c", "i", "t", "y", " ", "s", "o", "u", "n", "d", "s">>
HINT_PEOPLE_HAPPY == <<"u", "p", "b", "e", "a", "t", " ", "a", "c", "o", "u", "s", "t", "i", "c", " ", "g", "u", "i", "t", "a", "r", " ", "a", "n", "d", " ", "l", "i", "g", "h", "t", " ", "p", "e", "r", "c", "u", "s", "s", "i", "o", "n">>
HINT_PEOPLE_DREAMY == <<"e", "t", "h", "e", "r", "e", "a", "l", " ", "v", "o", "c", "a", "l", "s", " ", "a", "n", "d", " ", "r", "e", "v", "e", "r", "b", "e", "d", " ", "t", "e", "x", "t", "u", "r", "e", "s">>

NatureHint(mood_lower) ==
    IF mood_lower \in {<<"p", "e", "a", "c", "e", "f", "u", "l">>, <<"s", "e", "r", "e", "n", "e">>, <<"c", "a", "l", "m">>} THEN HINT_NATURE_CALM
    ELSE IF mood_lower \in {<<"d", "r", "a", "m", "a", "t", "i", "c">>, <<"i", "n", "t", "e", "n", "s", "e">>} THEN HINT_NATURE_DRAMATIC
    ELSE <<>>

UrbanHint(mood_lower) ==
    IF mood_lower \in {<<"e", "n", "e", "r", "g", "e", "t", "i", "c">>, <<"c", "h", "a", "o", "t", "i", "c">>} THEN HINT_URBAN_ENERGETIC
    ELSE IF mood_lower \in {<<"m", "e", "l", "a", "n", "c", "h", "o", "l", "i", "c">>, <<"s", "o", "m", "b", "e", "r">>} THEN HINT_URBAN_SOMBER
    ELSE <<>>

PeopleHint(mood_lower) ==
    IF mood_lower \in {<<"h", "a", "p", "p", "y">>, <<"j", "o", "y", "f", "u", "l">>} THEN HINT_PEOPLE_HAPPY
    ELSE IF mood_lower \in {<<"m", "y", "s", "t", "e", "r", "i", "o", "u", "s">>, <<"d", "r", "e", "a", "m", "y">>} THEN HINT_PEOPLE_DREAMY
    ELSE <<>>

\* variant: the first category whose keyword matches decides alone
GetGenreHintFirstCategoryDecides(cap, primary_mood) ==
    LET caption_lower == Lower(cap)
        mood_lower == Lower(primary_mood)
    IN  IF AnyWordIn(NatureWords, caption_lower) THEN NatureHint(mood_lower)
        ELSE IF AnyWordIn(UrbanWords, caption_lower) THEN UrbanHint(mood_lower)
        ELSE IF AnyWordIn(PeopleWords, caption_lower) THEN PeopleHint(mood_lower)
        ELSE <<>>

\* A category whose keyword matches but whose mood lists do not returns
\* nothing, and the next category is tried.
GetGenreHint(cap, primary_mood) ==
    LET caption_lower == Lower(cap)
        mood_lower == Lower(primary_mood)
    IN  IF AnyWordIn(NatureWords, caption_lower) /\ NatureHint(mood_lower) /= <<>>
        THEN NatureHint(mood_lower)
        ELSE IF AnyWordIn(UrbanWords, caption_lower) /\ UrbanHint(mood_lower) /= <<>>
        THEN UrbanHint(mood_lower)
        ELSE IF AnyWordIn(PeopleWords, caption_lower) /\ PeopleHint(mood_lower) /= <<>>
        THEN PeopleHint(mood_lower)
        ELSE <<>>

(***************************************************************************)
(* MusicOrchestrator._create_intelligent_prompt                            *)
(* mood_scores is an insertion-ordered dict: a sequence of                 *)
(* [mood, score] records with distinct moods.                              *)
(***************************************************************************)
Keys(mood_scores) == [i \in 1..Len(mood_scores) |-> mood_scores[i].mood]

\* list[:n]
Take(s, n) == SubSeq(s, 1, IF Len(s) < n THEN Len(s) ELSE n)

\* mood_scores[key]
Lookup(mood_scores, key) ==
    mood_scores[CHOOSE i \in 1..Len(mood_scores) : mood_scores[i].mood = key].score

\* variant: the caption is lower-cased before it is inserted
BaseClauseLowered(cap, primary_mood) ==
    <<"A", " ">> \o primary_mood \o <<" ", "p", "i", "e", "c", "e", " ", "o", "f", " ", "m", "u", "s", "i", "c", " ", "f", "o", "r", " ">> \o Lower(cap)

BaseClause(cap, primary_mood) ==
    <<"A", " ">> \o primary_mood \o <<" ", "p", "i", "e", "c", "e", " ", "o", "f", " ", "m", "u", "s", "i", "c", " ", "f", "o", "r", " ">> \o cap

SecondMoodClause(second) == <<"w", "i", "t", "h", " ", "e", "l", "e", "m", "e", "n", "t", "s", " ", "o", "f", " ">> \o second

\* variant: >= 0.2 instead of > 0.2
SecondMoodQualifiesAtThreshold(mood_scores) ==
    LET top_moods == Take(Keys(mood_scores), 2)
    IN  Len(top_moods) > 1 /\ Lookup(mood_scores, top_moods[2]) >= SecondMoodThreshold

\* len(top_moods) > 1 and mood_scores[top_moods[1]] > 0.2
SecondMoodQualifies(mood_scores) ==
    LET top_moods == Take(Keys(mood_scores), 2)
    IN  Len(top_moods) > 1 /\ Lookup(mood_scores, top_moods[2]) > SecondMoodThreshold

\* variant: the clause names the last of the top moods, also when it is the
\* only one
PromptPartsLastMood(cap, primary_mood, mood_scores) ==
    LET top_moods == Take(Keys(mood_scores), 2)
        genre_hint == GetGenreHint(cap, primary_mood)
    IN  << BaseClause(cap, primary_mood) >>
        \o (IF Len(top_moods) > 0
               /\ Lookup(mood_scores, top_moods[Len(top_moods)]) > SecondMoodThreshold
            THEN << SecondMoodClause(top_moods[Len(top_moods)]) >> ELSE <<>>)
        \o (IF genre_hint /= <<>> THEN << genre_hint >> ELSE <<>>)

PromptParts(cap, primary_mood, mood_scores) ==
    LET top_moods == Take(Keys(mood_scores), 2)
        genre_hint == GetGenreHint(cap, primary_mood)
    IN  << BaseClause(cap, primary_mood) >>
        \o (IF SecondMoodQualifies(mood_scores)
            THEN << SecondMoodClause(top_moods[2]) >> ELSE <<>>)
        \o (IF genre_hint /= <<>> THEN << genre_hint >> ELSE <<>>)

CreateIntelligentPrompt(cap, primary_mood, mood_scores) ==
    Join(<<",", " ">>, PromptParts(cap, primary_mood, mood_scores))

\* MusicGenerator.generate_with_emotion: the prompt handed to process
EnhancedPrompt(p, primary_mood) ==
    <<"A", " ">> \o primary_mood \o <<" ", "p", "i", "e", "c", "e", " ", "o", "f", " ", "m", "u", "s", "i", "c", ",", " ">> \o p

(***************************************************************************)
(* Exceptions a delegate (PIL, transformers, torch) can raise.             *)
(* "OutOfMemory" is a RuntimeError whose text contains "out of memory".    *)
(***************************************************************************)
ExceptionKinds == {"OutOfMemory", "RuntimeError", "Exception"}
IsRuntimeError(e) == e \in {"OutOfMemory", "RuntimeError"}
\* "out of memory" in str(e)
MentionsOutOfMemory(e) == e = "OutOfMemory"

Returned(v) == [kind |-> "return", value |-> v]
Raised(e) == [kind |-> "raise", exc |-> e]

(***************************************************************************)
(* BLIP2Model.process                                                      *)
(*   open:   what Image.open / convert does: "ok" or an exception          *)
(*   infer:  what processor / model.generate / batch_decode does           *)
(*   text:   the decoded text, before .strip()                             *)
(***************************************************************************)
ImageOutcomes == {"ok", "UnidentifiedImageError"} \cup ExceptionKinds
InferOutcomes == {"ok"} \cup ExceptionKinds

\* variant: every exception is re-raised
BlipOnErrorRaisesAll(e) == Raised(e)

\* the outer handlers: RuntimeError is re-raised, any other Exception
\* becomes the fallback caption
BlipOnError(e) == IF IsRuntimeError(e) THEN Raised(e) ELSE Returned(AN_IMAGE)

BlipProcess(handle, open, infer, text) ==
    IF open /= "ok" THEN Returned(AN_IMAGE)
    ELSE IF handle /= "loaded" THEN BlipOnError("Exception")  \* None is not callable
    ELSE IF infer /= "ok" THEN BlipOnError(infer)
    ELSE Returned(Strip(text))

\* which failure happened inside the call, whether or not it was handled:
\* "image" (loading the image), "runtime" (a RuntimeError while captioning),
\* "other" (any other exception while captioning), "none"
BlipFault(handle, open, infer) ==
    IF open /= "ok" THEN "image"
    ELSE IF handle /= "loaded" THEN "other"
    ELSE IF infer = "ok" THEN "none"
    ELSE IF IsRuntimeError(infer) THEN "runtime"
    ELSE "other"

\* texts the captioning model decodes to in this model
DecodedTexts == { <<>>, <<" ", "a", " ", "F", "o", "r", "e", "s", "t", " ", "i", "n", " ", "t", "h", "e", " ", "c", "i", "t", "y", "\n">> }

(***************************************************************************)
(* CLIPMoodAnalyzer.process                                                *)
(***************************************************************************)
MoodIndices == 1..Len(mood_tags)

\* variant: the k largest, in any order (sorted=False)
TopKUnsorted(probs, k) ==
    { s \in [1..k -> MoodIndices] :
        /\ \A i, j \in 1..k : i /= j => s[i] /= s[j]
        /\ \A m \in MoodIndices :
              (\A i \in 1..k : s[i] /= m) => \A i \in 1..k : probs[m] <= probs[s[i]] }

\* torch.topk(probs[0], k): k distinct indices, values descending, nothing
\* left out that is larger than the smallest one kept.  Ties come in any
\* order.
TopK(probs, k) ==
    { s \in [1..k -> MoodIndices] :
        /\ \A i, j \in 1..k : i /= j => s[i] /= s[j]
        /\ \A i \in 1..(k - 1) : probs[s[i]] >= probs[s[i + 1]]
        /\ \A m \in MoodIndices :
              (\A i \in 1..k : s[i] /= m) => probs[m] <= probs[s[k]] }

\* the dict built by the loop over zip(top_probs, top_indices)
MoodScores(probs, top_indices) ==
    [i \in 1..Len(top_indices) |->
        [mood |-> mood_tags[top_indices[i]], score |-> probs[top_indices[i]]]]

MoodResult(primary_mood, mood_scores) ==
    [primary_mood |-> primary_mood, mood_scores |-> mood_scores]

MoodFallback == MoodResult(NEUTRAL, << [mood |-> NEUTRAL, score |-> 100] >>)

ClipResults(probs) ==
    { MoodResult(mood_tags[s[1]], MoodScores(probs, s)) : s \in TopK(probs, top_k) }

\* did an exception occur inside the try block ("failed") or not ("none")
ClipFault(handle, open, infer) ==
    IF open /= "ok" \/ handle /= "loaded" \/ infer /= "ok" THEN "failed" ELSE "none"

\* variant: the exception is passed on instead of the fallback
ClipOnErrorRaises(e) == Raised(e)

\* variant: the fallback is the first configured tag
ClipOnErrorFirstTag(e) ==
    Returned(MoodResult(mood_tags[1], << [mood |-> mood_tags[1], score |-> 100] >>))

\* except Exception: return "neutral", {"neutral": 1.0}
ClipOnError(e) == Returned(MoodFallback)

ClipProcess(handle, open, infer, probs) ==
    IF open /= "ok" THEN {ClipOnError(open)}
    ELSE IF handle /= "loaded" THEN {ClipOnError("Exception")}  \* None is not callable
    ELSE IF infer /= "ok" THEN {ClipOnError(infer)}
    ELSE {Returned(r) : r \in ClipResults(probs)}

\* softmax outputs in this model: three tags carry the mass
ProbVector(a, b, c, p) ==
    [m \in MoodIndices |->
        IF m = a THEN p[1] ELSE IF m = b THEN p[2] ELSE IF m = c THEN p[3] ELSE 0]

TagTriples == { <<2, 14, 10>> }
ScoreTriples == { <<70, 20, 10>>, <<40, 30, 30>> }

ProbVectors ==
    { ProbVector(t[1], t[2], t[3], p) : t \in TagTriples, p \in ScoreTriples }

(***************************************************************************)
(* MusicGenerator.process, one frame of it                                 *)
(***************************************************************************)
\* duration = duration or self.default_duration
FrameDuration(arg) == OrElse(arg, default_duration)

\* variant: no upper clamp
ClampDurationOff(d) == d

\* if duration > config.audio.max_duration: duration = max_duration
ClampDuration(d) == IF d > max_duration THEN max_duration ELSE d

\* max_new_tokens = int(duration * 50)
MaxNewTokens(d) == d * TokensPerSecond

\* variant: retry at every duration
ShouldRetryAnyDuration(e, d) == IsRuntimeError(e) /\ MentionsOutOfMemory(e)

\* variant: every RuntimeError is retried, whatever its message
ShouldRetryAnyRuntimeError(e, d) == IsRuntimeError(e) /\ d > RetryAbove

\* the except RuntimeError clause: retry, or re-raise
ShouldRetry(e, d) == IsRuntimeError(e) /\ MentionsOutOfMemory(e) /\ d > RetryAbove

\* variant: the retry asks for the same duration again
RetrySameDuration(d) == d

\* self.process(prompt, duration // 2)
RetryDuration(d) == d \div 2

\* lengths of the waveform model.generate may give back for a token budget:
\* about SamplesPerToken samples per token, somewhat shorter or longer
AudioLens(tokens) ==
    IF tokens <= 0 THEN {0}
    ELSE { n * SamplesPerToken :
             n \in { t \in (tokens - MaxDrift)..(tokens + MaxDrift) : t >= 0 } }

\* one model.generate call: the frame's duration, its token budget, "ok" or
\* the exception raised, and the optional length of the waveform returned
Attempt(d, tokens, res, audio) ==
    [duration |-> d, max_new_tokens |-> tokens, result |-> res, audio |-> audio]

\* variant: floor division, whole seconds only
DurationSecondsFloor(len, rate) == [num |-> (len \div rate) * rate, den |-> rate]

\* 'duration_seconds': len(audio_array) / sample_rate, kept as a fraction
DurationSeconds(len, rate) == [num |-> len, den |-> rate]

(***************************************************************************)
(* Result dictionaries.                                                    *)
(***************************************************************************)
AnalysisResult(path, cap, m) ==
    [caption |-> cap, primary_mood |-> m.primary_mood,
     mood_scores |-> m.mood_scores, image_path |-> path]

\* variant: the generation result carries the text under 'caption' as well
MusicResultWithCaption(len, rate, p) ==
    [audio_array |-> [len |-> len], sample_rate |-> rate, prompt_used |-> p,
     duration_seconds |-> DurationSeconds(len, rate), caption |-> p]

MusicResult(len, rate, p) ==
    [audio_array |-> [len |-> len], sample_rate |-> rate, prompt_used |-> p,
     duration_seconds |-> DurationSeconds(len, rate)]

\* {**a, **b}
MergeDicts(a, b) ==
    [k \in (DOMAIN a) \cup (DOMAIN b) |-> IF k \in DOMAIN b THEN b[k] ELSE a[k]]

(***************************************************************************)
(* The file system and the requests.                                       *)
(***************************************************************************)
Paths == {"photo.jpg", "missing.jpg"}
ExistingPaths == {"photo.jpg"}

RequestedDurations ==
    {None} \cup { Some(d) : d \in (0 - MaxBelow)..(max_duration + MaxAbove) }
           \cup { Some(FarAbove) }

NoOutcome == [kind |-> "none"]
NoFaults == [caption |-> "none", mood |-> "none"]
NothingToSave == [audio_array |-> <<>>, sample_rate |-> sample_rate]

(***************************************************************************)
(* utils/config.py: the dataclasses and their defaults.  An object is a    *)
(* record of its class and its fields; a dict, a list and a tuple are      *)
(* objects of those classes.                                               *)
(***************************************************************************)
PyNone == [cls |-> "NoneType"]
PyTuple(items) == [cls |-> "tuple", items |-> items]
PyList(items) == [cls |-> "list", items |-> items]
Dict(items) == [cls |-> "dict", items |-> items]
Instance(cls, fields) == [cls |-> cls, fields |-> fields]

DataClasses == {"ProjectConfig", "ModelConfig", "AudioConfig", "EvaluationConfig"}

\* obj.name: attribute access works on a dataclass instance, not on a dict
GetAttr(obj, name) ==
    IF obj.cls \in DataClasses THEN Returned(obj.fields[name])
    ELSE Raised("AttributeError")

\* the tags of mood_tags, each as one string
MoodTagNames == <<
    "serene", "happy", "melancholic", "energetic", "peaceful", "chaotic",
    "mysterious", "romantic", "dramatic", "calm", "joyful", "somber",
    "intense", "light", "dark", "dreamy" >>

\* ModelConfig(device = d)
ModelConfig(d) ==
    Instance("ModelConfig",
        [blip2_model |-> "Salesforce/blip2-opt-2.7b",
         clip_model |-> "openai/clip-vit-base-patch32",
         musicgen_model |-> "facebook/musicgen-small",
         device |-> d,
         torch_dtype |-> "float16",
         mood_tags |-> PyTuple(MoodTagNames)])

\* AudioConfig(default_duration = dd)
AudioConfig(dd) ==
    Instance("AudioConfig",
        [sample_rate |-> sample_rate,
         default_duration |-> dd,
         max_duration |-> max_duration,
         output_format |-> "wav"])

\* EvaluationConfig() after __post_init__
EvaluationConfig ==
    Instance("EvaluationConfig",
        [clap_model |-> "laion/clap-htsat-unfused",
         emotion_models |-> Dict([image |-> "miccunifi/emotic",
                                  audio |-> "music-emotion"])])

\* ProjectConfig(project_name, version, models, audio) and __post_init__:
\* an argument that is None gets the default object, any other is kept as
\* it is
ProjectConfig(project_name, version, models, audio) ==
    Instance("ProjectConfig",
        [project_name |-> project_name,
         version |-> version,
         models |-> IF models = PyNone THEN ModelConfig("auto") ELSE models,
         audio |-> IF audio = PyNone THEN AudioConfig(default_duration) ELSE audio,
         evaluation |-> EvaluationConfig])

\* ProjectConfig()
DefaultConfig == ProjectConfig("semantic-sonifier", "0.1.0", PyNone, PyNone)

ConfigPaths == {"config.yaml", "test_config.yaml"}
NoYamlFiles == [p \in ConfigPaths |-> None]

ConfigurationIdle ==
    /\ config = DefaultConfig
    /\ yaml_files = NoYamlFiles
    /\ config_outcome = NoOutcome

(***************************************************************************)
(* Initial values of the other components.                                 *)
(***************************************************************************)
\* no GPU of either kind
CpuOnly == [cuda_count |-> 0, mps |-> FALSE]

DevicesIdle ==
    /\ hardware = CpuOnly
    /\ device_manager = None
    /\ device = None

\* BaseModel.__init__: self.model = None, self.processor = None
LifecycleIdle ==
    /\ model = "None"
    /\ processor = "None"
    /\ block = "outside"
    /\ lifecycle_log = <<>>

BatchIdle ==
    /\ batch_paths = <<>>
    /\ batch_results = <<>>
    /\ batch_pc = "idle"

\* api/app.py at import: empty directories, SonifierService() with
\* self.sonifier = None, no request
ServiceIdle ==
    /\ requests = <<>>
    /\ uploads = {}
    /\ outputs = {}
    /\ service_sonifier = "None"
    /\ instances = 0
    /\ running = 0

ElsewhereInit ==
    /\ ConfigurationIdle
    /\ DevicesIdle
    /\ LifecycleIdle
    /\ BatchIdle
    /\ ServiceIdle

\* SemanticSonifier.__init__: nothing loaded, no call made
PipelineInit ==
    /\ is_initialized = FALSE
    /\ blip_model = "None"
    /\ clip_analyzer = "None"
    /\ music_generator = "None"
    /\ pc = "idle"
    /\ image_path = "photo.jpg"
    /\ duration = None
    /\ caption = None
    /\ mood = None
    /\ prompt = None
    /\ gen_arg = None
    /\ attempts = <<>>
    /\ calls = <<>>
    /\ faults = NoFaults
    /\ outcome = NoOutcome

\* nothing to save, nothing saved
SavingIdle ==
    /\ to_save = NothingToSave
    /\ wav_file = None
    /\ save_outcome = NoOutcome

Init ==
    /\ PipelineInit
    /\ SavingIdle
    /\ ElsewhereInit

handles == <<blip_model, clip_analyzer, music_generator>>
locals == <<caption, mood, prompt, gen_arg, attempts, faults>>

\* an exception leaves process_image
Abort(e) ==
    /\ pc' = "idle"
    /\ outcome' = Raised(e)

\* variant: the path is not checked before the analysis starts
ProcessImageNoPathCheck(path, d) ==
    /\ pc = "idle"
    /\ is_initialized' = TRUE
    /\ image_path' = path
    /\ duration' = d
    /\ caption' = None
    /\ mood' = None
    /\ prompt' = None
    /\ gen_arg' = None
    /\ attempts' = <<>>
    /\ calls' = <<>>
    /\ faults' = NoFaults
    /\ pc' = "load_blip"
    /\ outcome' = NoOutcome
    /\ UNCHANGED handles
    /\ UNCHANGED <<saving, elsewhere>>

(***************************************************************************)
(* SemanticSonifier.process_image, entry: initialize() and the path check  *)
(***************************************************************************)
ProcessImageCall(path, d) ==
    /\ pc = "idle"
    /\ is_initialized' = TRUE
    /\ image_path' = path
    /\ duration' = d
    /\ caption' = None
    /\ mood' = None
    /\ prompt' = None
    /\ gen_arg' = None
    /\ attempts' = <<>>
    /\ calls' = <<>>
    /\ faults' = NoFaults
    /\ IF path \notin ExistingPaths
       THEN /\ pc' = "idle"
            /\ outcome' = Raised("FileNotFoundError")
       ELSE /\ pc' = "load_blip"
            /\ outcome' = NoOutcome
    /\ UNCHANGED handles

ProcessImage(path, d) ==
    /\ ProcessImageCall(path, d)
    /\ UNCHANGED <<saving, elsewhere>>

(***************************************************************************)
(* ImageAnalyzer.process                                                   *)
(***************************************************************************)
\* if self.blip_model is None: BLIP2Model(); load_model()
LoadBlip(ok) ==
    /\ pc = "load_blip"
    /\ IF blip_model /= "None"
       THEN /\ pc' = "load_clip"
            /\ UNCHANGED <<blip_model, calls, outcome>>
       ELSE /\ calls' = Append(calls, "load_blip")
            /\ IF ok
               THEN /\ blip_model' = "loaded"
                    /\ pc' = "load_clip"
                    /\ UNCHANGED outcome
               ELSE /\ blip_model' = "unloaded"
                    /\ Abort("Exception")
    /\ UNCHANGED <<is_initialized, clip_analyzer, music_generator, image_path,
                   duration, locals>>
    /\ UNCHANGED <<saving, elsewhere>>

\* if self.clip_analyzer is None: CLIPMoodAnalyzer(); load_model()
LoadClip(ok) ==
    /\ pc = "load_clip"
    /\ IF clip_analyzer /= "None"
       THEN /\ pc' = "caption"
            /\ UNCHANGED <<clip_analyzer, calls, outcome>>
       ELSE /\ calls' = Append(calls, "load_clip")
            /\ IF ok
               THEN /\ clip_analyzer' = "loaded"
                    /\ pc' = "caption"
                    /\ UNCHANGED outcome
               ELSE /\ clip_analyzer' = "unloaded"
                    /\ Abort("Exception")
    /\ UNCHANGED <<is_initialized, blip_model, music_generator, image_path,
                   duration, locals>>
    /\ UNCHANGED <<saving, elsewhere>>

\* variant: an exception of the caption call is swallowed and the analysis
\* goes on without a caption
CaptionSwallowsError(open, infer, text) ==
    /\ pc = "caption"
    /\ calls' = Append(calls, "caption")
    /\ faults' = [faults EXCEPT !.caption = BlipFault(blip_model, open, infer)]
    /\ LET r == BlipProcess(blip_model, open, infer, text)
       IN  caption' = IF r.kind = "return" THEN Some(r.value) ELSE None
    /\ pc' = "mood"
    /\ UNCHANGED <<is_initialized, handles, image_path, duration, mood, prompt,
                   gen_arg, attempts, outcome>>
    /\ UNCHANGED <<saving, elsewhere>>

\* caption = self.blip_model.process(image_path)
Caption(open, infer, text) ==
    /\ pc = "caption"
    /\ calls' = Append(calls, "caption")
    /\ faults' = [faults EXCEPT !.caption = BlipFault(blip_model, open, infer)]
    /\ LET r == BlipProcess(blip_model, open, infer, text)
       IN  IF r.kind = "return"
           THEN /\ caption' = Some(r.value)
                /\ pc' = "mood"
                /\ UNCHANGED outcome
           ELSE /\ Abort(r.exc)
                /\ UNCHANGED caption
    /\ UNCHANGED <<is_initialized, handles, image_path, duration, mood, prompt,
                   gen_arg, attempts>>
    /\ UNCHANGED <<saving, elsewhere>>

\* primary_mood, mood_scores = self.clip_analyzer.process(image_path)
Mood(open, infer, probs) ==
    /\ pc = "mood"
    /\ calls' = Append(calls, "mood")
    /\ faults' = [faults EXCEPT !.mood = ClipFault(clip_analyzer, open, infer)]
    /\ \E r \in ClipProcess(clip_analyzer, open, infer, probs) :
          IF r.kind = "return"
          THEN /\ mood' = Some(r.value)
               /\ pc' = "load_musicgen"
               /\ UNCHANGED outcome
          ELSE /\ Abort(r.exc)
               /\ UNCHANGED mood
    /\ UNCHANGED <<is_initialized, handles, image_path, duration, caption, prompt,
                   gen_arg, attempts>>
    /\ UNCHANGED <<saving, elsewhere>>

(***************************************************************************)
(* MusicOrchestrator.process                                               *)
(***************************************************************************)
\* if self.music_generator is None: MusicGenerator(); load_model()
LoadMusicGen(ok) ==
    /\ pc = "load_musicgen"
    /\ IF music_generator /= "None"
       THEN /\ pc' = "compose"
            /\ UNCHANGED <<music_generator, calls, outcome>>
       ELSE /\ calls' = Append(calls, "load_musicgen")
            /\ IF ok
               THEN /\ music_generator' = "loaded"
                    /\ pc' = "compose"
                    /\ UNCHANGED outcome
               ELSE /\ music_generator' = "unloaded"
                    /\ Abort("Exception")
    /\ UNCHANGED <<is_initialized, blip_model, clip_analyzer, image_path,
                   duration, locals>>
    /\ UNCHANGED <<saving, elsewhere>>

\* prompt = self._create_intelligent_prompt(...); the duration handed on is
\* process_image's `duration or config.audio.default_duration`
ComposePrompt ==
    /\ pc = "compose"
    /\ calls' = Append(calls, "prompt")
    /\ prompt' = Some(CreateIntelligentPrompt(Val(caption), Val(mood).primary_mood,
                                              Val(mood).mood_scores))
    /\ gen_arg' = Some(OrElse(duration, default_duration))
    /\ pc' = "generate"
    /\ UNCHANGED <<is_initialized, handles, image_path, duration, caption, mood,
                   attempts, faults, outcome>>
    /\ UNCHANGED <<saving, elsewhere>>

\* what process_image returns once the audio is there
FinalResult(len) ==
    MergeDicts(AnalysisResult(image_path, Val(caption), Val(mood)),
               MusicResult(len, sample_rate, Val(prompt)))

\* One frame of MusicGenerator.process (entered through generate_with_emotion,
\* or through the retry of the frame before it): result is "ok" or the
\* exception the processor or model.generate raises.
Generate(result) ==
    /\ pc = "generate"
    /\ LET d == ClampDuration(FrameDuration(gen_arg))
           tokens == MaxNewTokens(d)
           res == IF music_generator /= "loaded" THEN "Exception" ELSE result
       IN  /\ calls' = IF attempts = <<>> THEN Append(calls, "audio") ELSE calls
           /\ IF res = "ok"
              THEN /\ \E len \in AudioLens(tokens) :
                         /\ attempts' = Append(attempts, Attempt(d, tokens, res, Some(len)))
                         /\ outcome' = Returned(FinalResult(len))
                   /\ pc' = "idle"
                   /\ UNCHANGED gen_arg
              ELSE /\ attempts' = Append(attempts, Attempt(d, tokens, res, None))
                   /\ IF ShouldRetry(res, d)
                      THEN /\ gen_arg' = Some(RetryDuration(d))
                           /\ UNCHANGED <<pc, outcome>>
                      ELSE /\ Abort(res)
                           /\ UNCHANGED gen_arg
    /\ UNCHANGED <<is_initialized, handles, image_path, duration, caption, mood,
                   prompt, faults>>
    /\ UNCHANGED <<saving, elsewhere>>

(***************************************************************************)
(* SemanticSonifier.unload_models                                          *)
(***************************************************************************)
\* BaseModel.unload_model on a wrapper that exists
Unloaded(handle) == IF handle = "None" THEN "None" ELSE "unloaded"

UnloadModels ==
    /\ pc = "idle"
    /\ blip_model' = Unloaded(blip_model)
    /\ clip_analyzer' = Unloaded(clip_analyzer)
    /\ music_generator' = Unloaded(music_generator)
    /\ UNCHANGED <<is_initialized, pc, image_path, duration, locals, calls, outcome>>
    /\ UNCHANGED <<saving, elsewhere>>

\* the steps of requests
RequestStep ==
    \/ \E path \in Paths, d \in RequestedDurations : ProcessImage(path, d)
    \/ \E ok \in BOOLEAN : LoadBlip(ok)
    \/ \E ok \in BOOLEAN : LoadClip(ok)
    \/ \E open \in ImageOutcomes, infer \in InferOutcomes, text \in DecodedTexts :
          Caption(open, infer, text)
    \/ \E open \in ImageOutcomes, infer \in InferOutcomes, probs \in ProbVectors :
          Mood(open, infer, probs)
    \/ \E ok \in BOOLEAN : LoadMusicGen(ok)
    \/ ComposePrompt
    \/ \E result \in InferOutcomes : Generate(result)

Next ==
    \/ RequestStep
    \/ UnloadModels

Spec == Init /\ [][Next]_vars

\* The API's SonifierService: one SemanticSonifier for all requests, and
\* unload_models is never called on it.
SpecService == Init /\ [][RequestStep]_vars

(***************************************************************************)
(* The prompt composer on its own: every caption and mood ranking below is *)
(* handed to MusicOrchestrator.process's composing step.                   *)
(***************************************************************************)
\* longest mood ranking tried
MaxRanking == 3

ComposeCaptions == {
    <<>>,
    <<"a", " ", "F", "o", "r", "e", "s", "t", " ", "i", "n", " ", "t", "h", "e", " ", "c", "i", "t", "y">>,
    <<"a", " ", "p", "e", "r", "s", "o", "n">>,
    <<"a", " ", "d", "a", "r", "k", " ", "r", "o", "o", "m">>,
    <<"C", "i", "t", "y", " ", "s", "t", "r", "e", "e", "t">>,
    AN_IMAGE }

ComposeMoods == { <<"h", "a", "p", "p", "y">>, <<"l", "i", "g", "h", "t">>, <<"d", "a", "r", "k">>, <<"e", "n", "e", "r", "g", "e", "t", "i", "c">>, <<"s", "e", "r", "e", "n", "e">>, NEUTRAL }
ComposeScores == {10, 20, 21, 70}

\* rankings as the mood service orders them: distinct moods, confidence
\* descending
Rankings ==
    UNION { { r \in [1..n -> [mood : ComposeMoods, score : ComposeScores]] :
                /\ \A i, j \in 1..n : i /= j => r[i].mood /= r[j].mood
                /\ \A i \in 1..(n - 1) : r[i].score >= r[i + 1].score }
            : n \in 0..MaxRanking }

\* the primary mood is the first key; an empty ranking goes with any mood
ComposeInputs ==
    { MoodResult(r[1].mood, r) : r \in Rankings \ {<<>>} }
    \cup { MoodResult(m, <<>>) : m \in ComposeMoods }
    \cup { MoodFallback }

ComposeInit ==
    /\ is_initialized = TRUE
    /\ blip_model = "loaded"
    /\ clip_analyzer = "loaded"
    /\ music_generator = "loaded"
    /\ pc = "compose"
    /\ image_path = "photo.jpg"
    /\ duration = None
    /\ caption \in { Some(c) : c \in ComposeCaptions }
    /\ mood \in { Some(m) : m \in ComposeInputs }
    /\ prompt = None
    /\ gen_arg = None
    /\ attempts = <<>>
    /\ calls = <<"caption", "mood">>
    /\ faults = NoFaults
    /\ outcome = NoOutcome
    /\ to_save = NothingToSave
    /\ wav_file = None
    /\ save_outcome = NoOutcome
    /\ ElsewhereInit

NextCompose == ComposePrompt

SpecCompose == ComposeInit /\ [][NextCompose]_vars

(***************************************************************************)
(* Properties.                                                             *)
(***************************************************************************)
Last(s) == s[Len(s)]
IsPrefix(s, t) == Len(s) <= Len(t) /\ SubSeq(t, 1, Len(s)) = s
PipelineSteps == {"caption", "mood", "prompt", "audio"}
PipelineOrder == <<"caption", "mood", "prompt", "audio">>
IsPipelineStep(c) == c \in PipelineSteps
StepsOf(log) == SelectSeq(log, IsPipelineStep)

\* C1: the collaborator calls of one process_image run happen in the order
\* caption, mood, prompt composition, audio synthesis, each after the one
\* before it has returned a result; audio synthesis is started only when
\* caption, mood and prompt exist; a run that returns made all four.
C1_StrictOrder ==
    /\ IsPrefix(StepsOf(calls), PipelineOrder)
    /\ "mood" \in Range(calls) => caption /= None
    /\ "prompt" \in Range(calls) => caption /= None /\ mood /= None
    /\ ("audio" \in Range(calls) \/ attempts /= <<>>)
          => caption /= None /\ mood /= None /\ prompt /= None
    /\ attempts /= <<>> => "audio" \in Range(calls)
    /\ outcome.kind = "return" => StepsOf(calls) = PipelineOrder

C1_Witness ==
    /\ outcome.kind = "return"
    /\ StepsOf(calls) = PipelineOrder
    /\ Len(attempts) >= 2

\* C2: a call on a path that does not exist raises FileNotFoundError at once:
\* nothing is loaded, no caption, mood, prompt or audio call is made, there
\* is no attempt at synthesis, and the step leaves the model handles as they
\* were.
C2_NotFoundState ==
    (is_initialized /\ image_path \notin ExistingPaths)
        => /\ pc = "idle"
           /\ outcome = Raised("FileNotFoundError")
           /\ calls = <<>>
           /\ attempts = <<>>
           /\ caption = None /\ mood = None /\ prompt = None

C2_NotFoundStep ==
    (outcome' = Raised("FileNotFoundError")
        /\ <<image_path, duration, outcome>>' /= <<image_path, duration, outcome>>)
        => /\ handles' = handles
           /\ pc' = "idle"
           /\ image_path' \notin ExistingPaths

C2_NotFoundFailsFast == [](C2_NotFoundState) /\ [][C2_NotFoundStep]_vars

C2_Witness ==
    /\ outcome = Raised("FileNotFoundError")
    /\ blip_model = "loaded"
    /\ music_generator = "loaded"

\* the request asked for a duration below the minimum of 1
RequestedBelowMinimum == duration /= None /\ Val(duration) < 1
\* the request asked for a duration above the configured maximum
RequestedAboveMaximum == duration /= None /\ Val(duration) > max_duration

\* C3: a requested duration below 1 is clamped up to 1: the synthesis of such
\* a request starts with an effective duration of 1.
C3_ClampedUpToOne ==
    (RequestedBelowMinimum /\ attempts /= <<>>) => attempts[1].duration = 1

\* C4: a requested duration above max_duration is clamped to max_duration,
\* not rejected: the first synthesis attempt runs with exactly max_duration,
\* and no attempt of any request has a token budget above 50 * max_duration.
C4_ClampedToMaximum ==
    /\ (RequestedAboveMaximum /\ attempts /= <<>>)
          => /\ attempts[1].duration = max_duration
             /\ attempts[1].max_new_tokens = 50 * max_duration
    /\ \A i \in DOMAIN attempts : attempts[i].max_new_tokens <= 50 * max_duration

C4_Witness ==
    /\ duration = Some(FarAbove)
    /\ outcome.kind = "return"
    /\ attempts[1].duration = max_duration

\* a failure inside the caption service that the service absorbs
CaptionDegraded == faults.caption \in {"image", "other"}
\* the run was aborted by the call logged last
AbortedAt(step) == pc = "idle" /\ outcome.kind = "raise" /\ calls /= <<>> /\ Last(calls) = step

C6_MoodFallback ==
    faults.mood = "failed"
        => /\ mood = Some([primary_mood |-> <<"n", "e", "u", "t", "r", "a", "l">>,
                           mood_scores |-> << [mood |-> <<"n", "e", "u", "t", "r", "a", "l">>, score |-> 100] >>])
           /\ ~AbortedAt("mood")
           /\ Last(calls) = "mood"
                 => pc \in {"load_musicgen", "compose"} /\ outcome = NoOutcome
           /\ outcome.kind = "return"
                 => /\ outcome.value.primary_mood = <<"n", "e", "u", "t", "r", "a", "l">>
                    /\ StepsOf(calls) = PipelineOrder

C6_Witness ==
    /\ faults.mood = "failed"
    /\ outcome.kind = "return"
    /\ outcome.value.primary_mood = NEUTRAL
    /\ StepsOf(calls) = PipelineOrder

\* the request's starting duration lies in [1, max_duration]
StartsInRange == attempts /= <<>> /\ attempts[1].duration \in 1..max_duration
\* the run is over
Finished == pc = "idle"

RECURSIVE HalvingAttempts(_)
HalvingAttempts(d) == IF d > 5 THEN 1 + HalvingAttempts(d \div 2) ELSE 1

C8_HalvedResultReturned ==
    \A i \in DOMAIN attempts :
        attempts[i].result = "ok"
            => /\ i = Len(attempts)
               /\ Finished
               /\ outcome.kind = "return"
               /\ attempts[i].audio = Some(outcome.value.audio_array.len)
               /\ outcome.value.sample_rate = 32000
               /\ i > 1 => /\ attempts[i - 1].result = "OutOfMemory"
                           /\ attempts[i].duration = attempts[i - 1].duration \div 2
                           /\ attempts[i].max_new_tokens
                                 = 50 * (attempts[i - 1].duration \div 2)
                           /\ attempts[i].max_new_tokens < attempts[i - 1].max_new_tokens

C8_Witness ==
    /\ Len(attempts) = 2
    /\ attempts[1].result = "OutOfMemory"
    /\ attempts[1].duration = 11
    /\ attempts[2].result = "ok"
    /\ attempts[2].max_new_tokens = 250
    /\ outcome.kind = "return"

\* the inputs and the output of the composing step, once it has run
Composed == prompt /= None
TheCaption == Val(caption)
ThePrimaryMood == Val(mood).primary_mood
TheMoodScores == Val(mood).mood_scores
ThePrompt == Val(prompt)
TheBaseClause == <<"A", " ">> \o ThePrimaryMood \o <<" ", "p", "i", "e", "c", "e", " ", "o", "f", " ", "m", "u", "s", "i", "c", " ", "f", "o", "r", " ">> \o TheCaption

\* C9: for every caption (the empty one included) and every mood ranking
\* (the empty one included) the composed prompt is a non-empty string that
\* starts with "A {primary_mood} piece of music for {caption}", mood and
\* caption as given.
C9_BaseClausePrefix ==
    Composed
        => /\ ThePrompt /= <<>>
           /\ StartsWith(ThePrompt, TheBaseClause)
           /\ Len(ThePrompt) >= 22 + Len(ThePrimaryMood) + Len(TheCaption)

C9_Witness ==
    /\ Composed
    /\ TheCaption = <<>>
    /\ TheMoodScores = <<>>
    /\ ThePrompt = <<"A", " ", "n", "e", "u", "t", "r", "a", "l", " ", "p", "i", "e", "c", "e", " ", "o", "f", " ", "m", "u", "s", "i", "c", " ", "f", "o", "r", " ">>

\* the second key of mood_scores and its confidence
HasSecondMood == Len(TheMoodScores) >= 2
SecondMood == TheMoodScores[2].mood
SecondScore == TheMoodScores[2].score

\* C10 as stated: the prompt mentions the second-ranked mood, through the
\* clause "with elements of {secondMood}", if its confidence is above 0.2,
\* and mentions that mood nowhere if its confidence is 0.2 or less.
C10_SecondMoodMentionedIffAbove ==
    (Composed /\ HasSecondMood)
        => /\ SecondScore > 20
                 => Contains(ThePrompt, <<"w", "i", "t", "h", " ", "e", "l", "e", "m", "e", "n", "t", "s", " ", "o", "f", " ">> \o SecondMood)
           /\ SecondScore <= 20 => ~Contains(ThePrompt, SecondMood)

\* the hints _get_genre_hint can return
GenreHints == {
    <<"a", "m", "b", "i", "e", "n", "t", " ", "p", "a", "d", "s", " ", "a", "n", "d", " ", "g", "e", "n", "t", "l", "e", " ", "f", "l", "u", "t", "e", "s">>,
    <<"e", "p", "i", "c", " ", "o", "r", "c", "h", "e", "s", "t", "r", "a", "l", " ", "s", "t", "r", "i", "n", "g", "s", " ", "a", "n", "d", " ", "h", "o", "r", "n", "s">>,
    <<"e", "l", "e", "c", "t", "r", "o", "n", "i", "c", " ", "b", "e", "a", "t", "s", " ", "a", "n", "d", " ", "s", "y", "n", "t", "h", " ", "b", "a", "s", "s">>,
    <<"s", "l", "o", "w", " ", "p", "i", "a", "n", "o", " ", "a", "n", "d", " ", "d", "i", "s", "t", "a", "n", "t", " ", "c", "i", "t", "y", " ", "s", "o", "u", "n", "d", "s">>,
    <<"u", "p", "b", "e", "a", "t", " ", "a", "c", "o", "u", "s", "t", "i", "c", " ", "g", "u", "i", "t", "a", "r", " ", "a", "n", "d", " ", "l", "i", "g", "h", "t", " ", "p", "e", "r", "c", "u", "s", "s", "i", "o", "n">>,
    <<"e", "t", "h", "e", "r", "e", "a", "l", " ", "v", "o", "c", "a", "l", "s", " ", "a", "n", "d", " ", "r", "e", "v", "e", "r", "b", "e", "d", " ", "t", "e", "x", "t", "u", "r", "e", "s">> }

\* C10 as amended: the clause "with elements of {secondMood}" follows the
\* base clause if the second-ranked mood's confidence is above 0.2; if it is
\* 0.2 or less no such clause is added, and the prompt is the base clause
\* followed at most by a genre hint (the mood's word can still occur in the
\* caption or in the hint).
C10_SecondMoodClauseIffAbove ==
    (Composed /\ HasSecondMood)
        => /\ SecondScore > 20
                 => StartsWith(ThePrompt,
                        TheBaseClause \o <<",", " ", "w", "i", "t", "h", " ", "e", "l", "e", "m", "e", "n", "t", "s", " ", "o", "f", " ">> \o SecondMood)
           /\ SecondScore <= 20
                 => \/ ThePrompt = TheBaseClause
                    \/ \E h \in GenreHints : ThePrompt = TheBaseClause \o <<",", " ">> \o h

C10_Witness ==
    /\ Composed
    /\ HasSecondMood
    /\ SecondScore = 20
    /\ SecondMood = <<"l", "i", "g", "h", "t">>
    /\ ThePrompt = <<"A", " ", "h", "a", "p", "p", "y", " ", "p", "i", "e", "c", "e", " ", "o", "f", " ", "m", "u", "s", "i", "c", " ", "f", "o", "r", " ", "a", " ", "p", "e", "r", "s", "o", "n", ",", " ", "u", "p", "b", "e", "a", "t", " ", "a", "c", "o", "u", "s", "t", "i", "c", " ", "g", "u", "i", "t", "a", "r", " ", "a", "n", "d", " ", "l", "i", "g", "h", "t", " ", "p", "e", "r", "c", "u", "s", "s", "i", "o", "n">>


(***************************************************************************)
(* Genre hints                                                             *)
(***************************************************************************)
HasNatureWord == \E w \in {<<"f", "o", "r", "e", "s", "t">>, <<"m", "o", "u", "n", "t", "a", "i", "n">>, <<"o", "c", "e", "a", "n">>, <<"r", "i", "v", "e", "r">>, <<"n", "a", "t", "u", "r", "e">>} :
    Contains(Lower(TheCaption), w)
HasUrbanWord == \E w \in {<<"c", "i", "t", "y">>, <<"b", "u", "i", "l", "d", "i", "n", "g">>, <<"s", "t", "r", "e", "e", "t">>, <<"u", "r", "b", "a", "n">>} :
    Contains(Lower(TheCaption), w)
HasPeopleWord == \E w \in {<<"p", "e", "r", "s", "o", "n">>, <<"p", "e", "o", "p", "l", "e">>, <<"p", "o", "r", "t", "r", "a", "i", "t">>, <<"f", "a", "c", "e">>} :
    Contains(Lower(TheCaption), w)

NatureHints == {<<"a", "m", "b", "i", "e", "n", "t", " ", "p", "a", "d", "s", " ", "a", "n", "d", " ", "g", "e", "n", "t", "l", "e", " ", "f", "l", "u", "t", "e", "s">>, <<"e", "p", "i", "c", " ", "o", "r", "c", "h", "e", "s", "t", "r", "a", "l", " ", "s", "t", "r", "i", "n", "g", "s", " ", "a", "n", "d", " ", "h", "o", "r", "n", "s">>}
UrbanHints == {<<"e", "l", "e", "c", "t", "r", "o", "n", "i", "c", " ", "b", "e", "a", "t", "s", " ", "a", "n", "d", " ", "s", "y", "n", "t", "h", " ", "b", "a", "s", "s">>, <<"s", "l", "o", "w", " ", "p", "i", "a", "n", "o", " ", "a", "n", "d", " ", "d", "i", "s", "t", "a", "n", "t", " ", "c", "i", "t", "y", " ", "s", "o", "u", "n", "d", "s">>}

\* the prompt without its base clause and second-mood clause
ThePromptTail ==
    LET head == IF HasSecondMood /\ SecondScore > 20
                THEN TheBaseClause \o <<",", " ", "w", "i", "t", "h", " ", "e", "l", "e", "m", "e", "n", "t", "s", " ", "o", "f", " ">> \o SecondMood
                ELSE TheBaseClause
    IN  SubSeq(ThePrompt, Len(head) + 1, Len(ThePrompt))

\* the hint the rules give: the mood lists of the three categories are
\* disjoint, so the primary mood picks the category and the caption only
\* has to hold one of that category's keywords
TheExpectedHint ==
    LET m == Lower(ThePrimaryMood)
    IN  IF HasNatureWord /\ m \in {<<"p", "e", "a", "c", "e", "f", "u", "l">>, <<"s", "e", "r", "e", "n", "e">>, <<"c", "a", "l", "m">>}
        THEN <<"a", "m", "b", "i", "e", "n", "t", " ", "p", "a", "d", "s", " ", "a", "n", "d", " ", "g", "e", "n", "t", "l", "e", " ", "f", "l", "u", "t", "e", "s">>
        ELSE IF HasNatureWord /\ m \in {<<"d", "r", "a", "m", "a", "t", "i", "c">>, <<"i", "n", "t", "e", "n", "s", "e">>}
        THEN <<"e", "p", "i", "c", " ", "o", "r", "c", "h", "e", "s", "t", "r", "a", "l", " ", "s", "t", "r", "i", "n", "g", "s", " ", "a", "n", "d", " ", "h", "o", "r", "n", "s">>
        ELSE IF HasUrbanWord /\ m \in {<<"e", "n", "e", "r", "g", "e", "t", "i", "c">>, <<"c", "h", "a", "o", "t", "i", "c">>}
        THEN <<"e", "l", "e", "c", "t", "r", "o", "n", "i", "c", " ", "b", "e", "a", "t", "s", " ", "a", "n", "d", " ", "s", "y", "n", "t", "h", " ", "b", "a", "s", "s">>
        ELSE IF HasUrbanWord /\ m \in {<<"m", "e", "l", "a", "n", "c", "h", "o", "l", "i", "c">>, <<"s", "o", "m", "b", "e", "r">>}
        THEN <<"s", "l", "o", "w", " ", "p", "i", "a", "n", "o", " ", "a", "n", "d", " ", "d", "i", "s", "t", "a", "n", "t", " ", "c", "i", "t", "y", " ", "s", "o", "u", "n", "d", "s">>
        ELSE IF HasPeopleWord /\ m \in {<<"h", "a", "p", "p", "y">>, <<"j", "o", "y", "f", "u", "l">>}
        THEN <<"u", "p", "b", "e", "a", "t", " ", "a", "c", "o", "u", "s", "t", "i", "c", " ", "g", "u", "i", "t", "a", "r", " ", "a", "n", "d", " ", "l", "i", "g", "h", "t", " ", "p", "e", "r", "c", "u", "s", "s", "i", "o", "n">>
        ELSE IF HasPeopleWord /\ m \in {<<"m", "y", "s", "t", "e", "r", "i", "o", "u", "s">>, <<"d", "r", "e", "a", "m", "y">>}
        THEN <<"e", "t", "h", "e", "r", "e", "a", "l", " ", "v", "o", "c", "a", "l", "s", " ", "a", "n", "d", " ", "r", "e", "v", "e", "r", "b", "e", "d", " ", "t", "e", "x", "t", "u", "r", "e", "s">>
        ELSE <<>>

\* C11 as stated: a caption with a nature keyword and an urban keyword never
\* gets an urban hint, because the nature category is checked first.
C11_FirstCategoryDecides ==
    (Composed /\ HasNatureWord /\ HasUrbanWord)
        => \A h \in UrbanHints : ~Contains(ThePrompt, h)

\* C11: the hint is that of the first category, in the order nature, urban,
\* people, of which the caption holds a keyword and whose mood lists hold the
\* primary mood; a category whose keyword matches but whose moods do not is
\* passed over, so a caption with "forest" and "city" gets the urban hint for
\* an urban mood.  At most one hint clause is appended.
C11_FirstMatchingRuleDecides ==
    Composed =>
        /\ ThePromptTail = (IF TheExpectedHint = <<>> THEN <<>>
                            ELSE <<",", " ">> \o TheExpectedHint)
        /\ (HasNatureWord /\ HasUrbanWord /\ Lower(ThePrimaryMood) = <<"e", "n", "e", "r", "g", "e", "t", "i", "c">>)
               => ThePromptTail = <<",", " ", "e", "l", "e", "c", "t", "r", "o", "n", "i", "c", " ", "b", "e", "a", "t", "s", " ", "a", "n", "d", " ", "s", "y", "n", "t", "h", " ", "b", "a", "s", "s">>
        /\ (HasNatureWord /\ HasUrbanWord /\ Lower(ThePrimaryMood) = <<"s", "e", "r", "e", "n", "e">>)
               => ThePromptTail = <<",", " ", "a", "m", "b", "i", "e", "n", "t", " ", "p", "a", "d", "s", " ", "a", "n", "d", " ", "g", "e", "n", "t", "l", "e", " ", "f", "l", "u", "t", "e", "s">>

C11_Witness ==
    /\ Composed
    /\ HasNatureWord
    /\ HasUrbanWord
    /\ ThePrimaryMood = <<"e", "n", "e", "r", "g", "e", "t", "i", "c">>
    /\ Contains(ThePrompt, <<"e", "l", "e", "c", "t", "r", "o", "n", "i", "c", " ", "b", "e", "a", "t", "s", " ", "a", "n", "d", " ", "s", "y", "n", "t", "h", " ", "b", "a", "s", "s">>)

(***************************************************************************)
(* Shape of the prompt                                                     *)
(***************************************************************************)
\* the clauses that apply, in the order base, second mood, genre hint
TheClauses ==
    << TheBaseClause >>
    \o (IF HasSecondMood /\ SecondScore > 20
        THEN << <<"w", "i", "t", "h", " ", "e", "l", "e", "m", "e", "n", "t", "s", " ", "o", "f", " ">> \o SecondMood >> ELSE <<>>)
    \o (IF TheExpectedHint /= <<>> THEN << TheExpectedHint >> ELSE <<>>)

CommaJoined(parts) ==
    IF Len(parts) = 1 THEN parts[1]
    ELSE IF Len(parts) = 2 THEN parts[1] \o <<",", " ">> \o parts[2]
    ELSE parts[1] \o <<",", " ">> \o parts[2] \o <<",", " ">> \o parts[3]

EndsWith(text, suffix) ==
    /\ Len(text) >= Len(suffix)
    /\ SubSeq(text, Len(text) - Len(suffix) + 1, Len(text)) = suffix

\* C12: the prompt is the clauses that apply, in the order base clause,
\* second-mood clause, genre-hint clause, joined with ", ": one to three
\* clauses, none of them empty, and no separator after the last one.
C12_ClausesJoined ==
    Composed =>
        LET clauses == TheClauses
        IN  /\ Len(clauses) \in 1..3
            /\ \A i \in 1..Len(clauses) : clauses[i] /= <<>>
            /\ ThePrompt = CommaJoined(clauses)
            /\ ~EndsWith(ThePrompt, <<",", " ">>)

C12_Witness ==
    /\ Composed
    /\ TheCaption = <<"a", " ", "p", "e", "r", "s", "o", "n">>
    /\ ThePrompt = <<"A", " ", "h", "a", "p", "p", "y", " ", "p", "i", "e", "c", "e", " ", "o", "f", " ", "m", "u", "s", "i", "c", " ", "f", "o", "r", " ", "a", " ", "p", "e", "r", "s", "o", "n", ",", " ", "w", "i", "t", "h", " ", "e", "l", "e", "m", "e", "n", "t", "s", " ", "o", "f", " ", "d", "a", "r", "k", ",", " ", "u", "p", "b", "e", "a", "t", " ", "a", "c", "o", "u", "s", "t", "i", "c", " ", "g", "u", "i", "t", "a", "r", " ", "a", "n", "d", " ", "l", "i", "g", "h", "t", " ", "p", "e", "r", "c", "u", "s", "s", "i", "o", "n">>

(***************************************************************************)
(* The result of process_image                                             *)
(***************************************************************************)
AnalysisFields == {"caption", "primary_mood", "mood_scores", "image_path"}
GenerationFields == {"audio_array", "sample_rate", "prompt_used", "duration_seconds"}
TheResult == outcome.value

\* C13: the merged result has the four analysis fields and the four
\* generation fields; the two dictionaries share no key, so caption,
\* primary_mood, mood_scores and image_path in it are those of the analysis
\* step.
C13_MergedFields ==
    outcome.kind = "return"
        => LET analysis == AnalysisResult(image_path, Val(caption), Val(mood))
               music == MusicResult(TheResult.audio_array.len, TheResult.sample_rate,
                                    Val(prompt))
           IN  /\ DOMAIN analysis = AnalysisFields
               /\ DOMAIN music = GenerationFields
               /\ (DOMAIN analysis) \cap (DOMAIN music) = {}
               /\ DOMAIN TheResult = AnalysisFields \cup GenerationFields
               /\ TheResult.caption = Val(caption)
               /\ TheResult.primary_mood = Val(mood).primary_mood
               /\ TheResult.mood_scores = Val(mood).mood_scores
               /\ TheResult.image_path = image_path
               /\ TheResult.prompt_used = Val(prompt)

C13_Witness ==
    /\ outcome.kind = "return"
    /\ TheResult.caption = <<"a", " ", "F", "o", "r", "e", "s", "t", " ", "i", "n", " ", "t", "h", "e", " ", "c", "i", "t", "y">>
    /\ TheResult.primary_mood = <<"h", "a", "p", "p", "y">>
    /\ TheResult.prompt_used /= TheResult.caption

\* what the request asked for, in samples at 32 kHz
RequestedSamples == OrElse(duration, 10) * 32000

\* C14: duration_seconds of a result is the length of the waveform returned
\* (that of the last synthesis attempt) divided by the sample rate of the
\* result, whatever the duration asked for, clamped or halved on the way.
C14_DurationFromWaveform ==
    outcome.kind = "return"
        => /\ TheResult.duration_seconds.num = TheResult.audio_array.len
           /\ TheResult.duration_seconds.den = TheResult.sample_rate
           /\ TheResult.sample_rate = 32000
           /\ Some(TheResult.audio_array.len) = Last(attempts).audio

C14_Witness ==
    /\ outcome.kind = "return"
    /\ Len(attempts) = 2
    /\ TheResult.duration_seconds.num /= RequestedSamples
    /\ TheResult.duration_seconds.num % 32000 /= 0
    /\ TheResult.duration_seconds.num = TheResult.audio_array.len

(***************************************************************************)
(* The mood ranking                                                        *)
(***************************************************************************)
Vocabulary == {
    <<"s", "e", "r", "e", "n", "e">>, <<"h", "a", "p", "p", "y">>, <<"m", "e", "l", "a", "n", "c", "h", "o", "l", "i", "c">>, <<"e", "n", "e", "r", "g", "e", "t", "i", "c">>, <<"p", "e", "a", "c", "e", "f", "u", "l">>, <<"c", "h", "a", "o", "t", "i", "c">>,
    <<"m", "y", "s", "t", "e", "r", "i", "o", "u", "s">>, <<"r", "o", "m", "a", "n", "t", "i", "c">>, <<"d", "r", "a", "m", "a", "t", "i", "c">>, <<"c", "a", "l", "m">>, <<"j", "o", "y", "f", "u", "l">>, <<"s", "o", "m", "b", "e", "r">>,
    <<"i", "n", "t", "e", "n", "s", "e">>, <<"l", "i", "g", "h", "t">>, <<"d", "a", "r", "k">>, <<"d", "r", "e", "a", "m", "y">> }

RankedMoods == { Val(mood).mood_scores[i].mood : i \in DOMAIN Val(mood).mood_scores }

\* C15 as stated: on the normal path and on the fallback path alike, every
\* key of mood_scores is one of the configured mood tags.
C15_KeysInVocabulary ==
    mood /= None => RankedMoods \subseteq Vocabulary

\* C15: when mood inference succeeds, every key of mood_scores is one of the
\* configured mood tags; when it fails, the only key is "neutral", which is
\* not one of them.
C15_KeysInVocabularyUnlessFallback ==
    mood /= None
        => /\ faults.mood = "none" => RankedMoods \subseteq Vocabulary
           /\ faults.mood = "failed"
                 => RankedMoods = {<<"n", "e", "u", "t", "r", "a", "l">>} /\ <<"n", "e", "u", "t", "r", "a", "l">> \notin Vocabulary

C15_Witness ==
    /\ mood /= None
    /\ faults.mood = "failed"
    /\ RankedMoods = {<<"n", "e", "u", "t", "r", "a", "l">>}
    /\ pc = "compose"

\* C16: primary_mood is the first key of mood_scores, no entry has a higher
\* confidence, the entries come in descending order of confidence and no
\* mood comes twice; so on the normal path and on the fallback path.
C16_PrimaryIsTop ==
    mood /= None
        => LET ms == Val(mood).mood_scores
           IN  /\ ms /= <<>>
               /\ ms[1].mood = Val(mood).primary_mood
               /\ \A i \in DOMAIN ms : ms[1].score >= ms[i].score
               /\ \A i \in 1..(Len(ms) - 1) : ms[i].score >= ms[i + 1].score
               /\ \A i, j \in DOMAIN ms : i /= j => ms[i].mood /= ms[j].mood
               /\ faults.mood = "none" => Len(ms) = 3

C16_Witness ==
    /\ mood /= None
    /\ faults.mood = "none"
    /\ Val(mood).primary_mood = <<"h", "a", "p", "p", "y">>
    /\ Val(mood).mood_scores[2].score = 30
    /\ Val(mood).mood_scores[3].score = 30

(***************************************************************************)
(* Requests one after the other                                            *)
(***************************************************************************)
\* C17 as stated: a failed request leaves nothing behind that changes a later
\* one.  As on a new SemanticSonifier, every inference step of every request
\* runs on a model that is loaded.
C17_LaterRequestsAsFresh ==
    /\ pc \in {"caption", "mood"} => blip_model = "loaded" /\ clip_analyzer = "loaded"
    /\ pc \in {"compose", "generate"} => music_generator = "loaded"

(***************************************************************************)
(* Failures of the synthesis                                               *)
(***************************************************************************)
NotOutOfMemory == {"RuntimeError", "Exception"}

C19_NoSecondMoodNoClause ==
    (pc = "generate" /\ attempts = <<>> /\ Len(TheMoodScores) < 2)
        => /\ Composed
           /\ ~Contains(ThePrompt, <<"w", "i", "t", "h", " ", "e", "l", "e", "m", "e", "n", "t", "s", " ", "o", "f">>)
           /\ ThePrompt \in {TheBaseClause}
                  \cup { TheBaseClause \o <<",", " ">> \o h : h \in GenreHints }

C19_Witness ==
    /\ Composed
    /\ TheMoodScores = << [mood |-> <<"n", "e", "u", "t", "r", "a", "l">>, score |-> 100] >>
    /\ ThePrimaryMood = <<"n", "e", "u", "t", "r", "a", "l">>
    /\ ThePrompt = <<"A", " ", "n", "e", "u", "t", "r", "a", "l", " ", "p", "i", "e", "c", "e", " ", "o", "f", " ", "m", "u", "s", "i", "c", " ", "f", "o", "r", " ", "C", "i", "t", "y", " ", "s", "t", "r", "e", "e", "t">>

(***************************************************************************)
(* Saving the waveform: api/app.py SonifierService.process_image and       *)
(* demo.py main, the statements after sonifier.process_image has returned. *)
(* Here the waveform is its samples, in whole amplitude units.             *)
(***************************************************************************)
MaxAmp == 2
MaxSamples == 3

Abs(x) == IF x < 0 THEN 0 - x ELSE x

\* np.max(np.abs(audio)), of a waveform with at least one sample
Peak(audio) ==
    CHOOSE p \in { Abs(audio[i]) : i \in DOMAIN audio } :
        \A i \in DOMAIN audio : Abs(audio[i]) <= p

\* x / y in floating point, kept as a fraction: a zero denominator stands for
\* what the division by zero gives (nan for 0 / 0, an infinity otherwise)
Divide(x, y) == [num |-> x, den |-> y]

\* a quotient that is a number between -1 and 1
InUnitRange(q) == q.den > 0 /\ 0 - q.den <= q.num /\ q.num <= q.den

\* result['audio_array'] / np.max(np.abs(result['audio_array']))
Normalize(audio) == [i \in DOMAIN audio |-> Divide(audio[i], Peak(audio))]

\* wavfile.write(path, rate, data)
WavFile(rate, data) == [rate |-> rate, data |-> data]

\* np.max of an empty array raises ValueError; otherwise the file is written
SaveAudio(result) ==
    IF result.audio_array = <<>> THEN Raised("ValueError")
    ELSE Returned(WavFile(result.sample_rate, Normalize(result.audio_array)))

Waveforms == UNION { [1..n -> (0 - MaxAmp)..MaxAmp] : n \in 0..MaxSamples }

ResultsToSave == { [audio_array |-> w, sample_rate |-> sample_rate] : w \in Waveforms }

SaveInit ==
    /\ is_initialized = TRUE
    /\ blip_model = "loaded"
    /\ clip_analyzer = "loaded"
    /\ music_generator = "loaded"
    /\ pc = "idle"
    /\ image_path = "photo.jpg"
    /\ duration = None
    /\ caption = None
    /\ mood = None
    /\ prompt = None
    /\ gen_arg = None
    /\ attempts = <<>>
    /\ calls = <<>>
    /\ faults = NoFaults
    /\ outcome = NoOutcome
    /\ to_save \in ResultsToSave
    /\ wav_file = None
    /\ save_outcome = NoOutcome
    /\ ElsewhereInit

\* api/app.py: an exception becomes HTTPException(500); otherwise the file
\* is written and the response is returned
ApiSaveAudio ==
    /\ save_outcome = NoOutcome
    /\ LET saved == SaveAudio(to_save)
       IN  IF saved.kind = "raise"
           THEN /\ save_outcome' = Raised("HTTPException")
                /\ UNCHANGED wav_file
           ELSE /\ wav_file' = Some(saved.value)
                /\ save_outcome' = Returned("response")
    /\ UNCHANGED <<is_initialized, handles, pc, image_path, duration, locals,
                   calls, outcome, to_save>>
    /\ UNCHANGED elsewhere

\* demo.py: an exception is printed; otherwise the file is written
DemoSaveAudio ==
    /\ save_outcome = NoOutcome
    /\ LET saved == SaveAudio(to_save)
       IN  IF saved.kind = "raise"
           THEN /\ save_outcome' = Raised(saved.exc)
                /\ UNCHANGED wav_file
           ELSE /\ wav_file' = Some(saved.value)
                /\ save_outcome' = Returned("printed")
    /\ UNCHANGED <<is_initialized, handles, pc, image_path, duration, locals,
                   calls, outcome, to_save>>
    /\ UNCHANGED elsewhere

NextSave ==
    \/ ApiSaveAudio
    \/ DemoSaveAudio

SpecSave == SaveInit /\ [][NextSave]_vars

\* C20 as stated: whatever waveform is saved, the silent one included, the
\* file holds as many samples as the waveform, each of them a number in
\* [-1, 1], and its rate is the sample rate of the result.
C20_PeakNormalized ==
    wav_file /= None
        => /\ Val(wav_file).rate = to_save.sample_rate
           /\ Len(Val(wav_file).data) = Len(to_save.audio_array)
           /\ \A i \in DOMAIN Val(wav_file).data : InUnitRange(Val(wav_file).data[i])

\* the variables of the pipeline
pipeline == <<is_initialized, handles, pc, image_path, duration, locals, calls, outcome>>

(***************************************************************************)
(* utils/config.py: save_config, ProjectConfig.from_yaml, load_config      *)
(***************************************************************************)
\* the dictionary save_config builds by reading the attributes of `config`;
\* AttributeError when config.models or config.audio has no such attribute
ConfigDict(cfg) ==
    LET models == cfg.fields.models
        audio == cfg.fields.audio
    IN  IF \E name \in {"blip2_model", "clip_model", "musicgen_model", "device",
                        "torch_dtype", "mood_tags"} :
               GetAttr(models, name).kind = "raise"
        THEN Raised("AttributeError")
        ELSE IF \E name \in {"sample_rate", "default_duration", "max_duration",
                             "output_format"} :
               GetAttr(audio, name).kind = "raise"
        THEN Raised("AttributeError")
        ELSE Returned(Dict(
            [project_name |-> cfg.fields.project_name,
             version |-> cfg.fields.version,
             models |-> Dict(
                 [blip2_model |-> models.fields.blip2_model,
                  clip_model |-> models.fields.clip_model,
                  musicgen_model |-> models.fields.musicgen_model,
                  device |-> models.fields.device,
                  torch_dtype |-> models.fields.torch_dtype,
                  \* list(config.models.mood_tags)
                  mood_tags |-> PyList(models.fields.mood_tags.items)]),
             audio |-> Dict(
                 [sample_rate |-> audio.fields.sample_rate,
                  default_duration |-> audio.fields.default_duration,
                  max_duration |-> audio.fields.max_duration,
                  output_format |-> audio.fields.output_format])]))

\* yaml.dump of that dictionary: a document of mappings, a sequence and
\* scalars
YamlMapping(entries) == [node |-> "mapping", entries |-> entries]
YamlSequence(entries) == [node |-> "sequence", entries |-> entries]

YamlDump(d) ==
    YamlMapping(
        [project_name |-> d.items.project_name,
         version |-> d.items.version,
         models |-> YamlMapping(
             [d.items.models.items EXCEPT !.mood_tags = YamlSequence(@.items)]),
         audio |-> YamlMapping(d.items.audio.items)])

\* yaml.safe_load: a mapping becomes a dict, a sequence a list
YamlSafeLoad(doc) ==
    Dict(
        [project_name |-> doc.entries.project_name,
         version |-> doc.entries.version,
         models |-> Dict(
             [doc.entries.models.entries EXCEPT !.mood_tags = PyList(@.entries)]),
         audio |-> Dict(doc.entries.audio.entries)])

\* ProjectConfig.from_yaml: cls(**config_dict) if the file exists, cls() if not
FromYaml(files, path) ==
    IF files[path] /= None
    THEN LET config_dict == YamlSafeLoad(Val(files[path]))
         IN  ProjectConfig(config_dict.items.project_name, config_dict.items.version,
                           config_dict.items.models, config_dict.items.audio)
    ELSE DefaultConfig

ConfigCall(kind, op, path) == [kind |-> kind, op |-> op, path |-> path]

SaveConfig(path) ==
    /\ LET config_dict == ConfigDict(config)
       IN  IF config_dict.kind = "raise"
           THEN /\ config_outcome' = ConfigCall("raise", "save_config", path)
                /\ UNCHANGED yaml_files
           ELSE /\ yaml_files' = [yaml_files EXCEPT ![path] = Some(YamlDump(config_dict.value))]
                /\ config_outcome' = ConfigCall("return", "save_config", path)
    /\ UNCHANGED <<config, pipeline, saving, devices, lifecycle, batch, service>>

\* global config; config = ProjectConfig.from_yaml(config_path); return config
LoadConfig(path) ==
    /\ config' = FromYaml(yaml_files, path)
    /\ config_outcome' = ConfigCall("return", "load_config", path)
    /\ UNCHANGED <<yaml_files, pipeline, saving, devices, lifecycle, batch, service>>

\* configurations a program may have set up before it saves
ConfigsToSave ==
    { ProjectConfig(name, "0.1.0", ModelConfig(d), AudioConfig(dd)) :
        name \in {"semantic-sonifier", "my-project"},
        d \in {"auto", "cpu"},
        dd \in {default_duration, default_duration \div 2} }

ConfigInit ==
    /\ PipelineInit
    /\ SavingIdle
    /\ config \in ConfigsToSave
    /\ yaml_files = NoYamlFiles
    /\ config_outcome = NoOutcome
    /\ DevicesIdle
    /\ LifecycleIdle
    /\ BatchIdle
    /\ ServiceIdle

NextConfig ==
    \/ \E path \in ConfigPaths : SaveConfig(path)
    \/ \E path \in ConfigPaths : LoadConfig(path)

SpecConfig == ConfigInit /\ [][NextConfig]_vars

\* obj.a.b
GetAttr2(obj, a, b) ==
    LET first == GetAttr(obj, a)
    IN  IF first.kind = "raise" THEN first ELSE GetAttr(first.value, b)

JustLoaded == config_outcome.kind = "return" /\ config_outcome.op = "load_config"
LoadedDocument == Val(yaml_files[config_outcome.path]).entries

\* C21 as stated: after load_config of a path that save_config has written,
\* `config` is a ProjectConfig whose project_name, version, models.* and
\* audio.* read, as attributes, the values that were saved; load_config of a
\* path that does not exist gives the default configuration.
C21_ConfigRoundTrip ==
    JustLoaded =>
        IF yaml_files[config_outcome.path] = None
        THEN config = DefaultConfig
        ELSE /\ config.cls = "ProjectConfig"
             /\ GetAttr(config, "project_name") = Returned(LoadedDocument.project_name)
             /\ GetAttr(config, "version") = Returned(LoadedDocument.version)
             /\ \A name \in {"blip2_model", "clip_model", "musicgen_model", "device",
                             "torch_dtype"} :
                   GetAttr2(config, "models", name)
                       = Returned(LoadedDocument.models.entries[name])
             /\ \A name \in {"sample_rate", "default_duration", "max_duration",
                             "output_format"} :
                   GetAttr2(config, "audio", name)
                       = Returned(LoadedDocument.audio.entries[name])

(***************************************************************************)
(* models/base.py: one BaseModel wrapper (BLIP2Model, CLIPMoodAnalyzer or  *)
(* MusicGenerator) used directly and as a context manager.                 *)
(***************************************************************************)
\* calls logged per wrapper
MaxLifecycleCalls == 5

\* load_model of the three wrappers: the processor first, then the model;
\* `failed_at` is "no", "processor" or "model"
LoadOutcomes == {"no", "processor", "model"}
LoadedProcessor(p, failed_at) == IF failed_at = "processor" THEN p ELSE "set"
LoadedModel(m, failed_at) == IF failed_at = "no" THEN "set" ELSE m

\* variant: __enter__ tests the processor
NeedsLoadByProcessor(m, p) == p = "None"

\* __enter__: if self.model is None
NeedsLoad(m, p) == m = "None"

LifecycleCall(call, m, p, detail) == [call |-> call, model |-> m, processor |-> p, detail |-> detail]

CanLog(n) == Len(lifecycle_log) + n <= MaxLifecycleCalls

\* m.load_model() outside a block
LoadModel(failed_at) ==
    /\ block = "outside"
    /\ CanLog(1)
    /\ processor' = LoadedProcessor(processor, failed_at)
    /\ model' = LoadedModel(model, failed_at)
    /\ lifecycle_log' = Append(lifecycle_log, LifecycleCall("load_model", model, processor, failed_at))
    /\ UNCHANGED block
    /\ UNCHANGED <<pipeline, saving, configuration, devices, batch, service>>

\* m.unload_model() outside a block
UnloadModel ==
    /\ block = "outside"
    /\ CanLog(1)
    /\ model' = "None"
    /\ processor' = "None"
    /\ lifecycle_log' = Append(lifecycle_log, LifecycleCall("unload_model", model, processor, "direct"))
    /\ UNCHANGED block
    /\ UNCHANGED <<pipeline, saving, configuration, devices, batch, service>>

\* `with m:` -> m.__enter__(); when load_model raises, the block is not
\* entered and __exit__ is not called
Enter(failed_at) ==
    /\ block = "outside"
    /\ CanLog(1)
    /\ IF NeedsLoad(model, processor)
       THEN /\ processor' = LoadedProcessor(processor, failed_at)
            /\ model' = LoadedModel(model, failed_at)
            /\ block' = IF failed_at = "no" THEN "inside" ELSE "outside"
            /\ lifecycle_log' = Append(lifecycle_log,
                   LifecycleCall("__enter__", model, processor, failed_at))
       ELSE /\ failed_at = "no"
            /\ block' = "inside"
            /\ lifecycle_log' = Append(lifecycle_log,
                   LifecycleCall("__enter__", model, processor, "not loaded again"))
            /\ UNCHANGED <<model, processor>>
    /\ UNCHANGED <<pipeline, saving, configuration, devices, batch, service>>

\* m.process(...) in the block returns
ProcessInBlock ==
    /\ block = "inside"
    /\ CanLog(2)
    /\ lifecycle_log' = Append(lifecycle_log, LifecycleCall("process", model, processor, "returned"))
    /\ UNCHANGED <<model, processor, block>>
    /\ UNCHANGED <<pipeline, saving, configuration, devices, batch, service>>

\* the end of the block, reached normally or by an exception of m.process:
\* m.__exit__() -> unload_model()
Exit(by_exception) ==
    /\ block = "inside"
    /\ model' = "None"
    /\ processor' = "None"
    /\ block' = "outside"
    /\ lifecycle_log' =
          (IF by_exception
           THEN Append(lifecycle_log, LifecycleCall("process", model, processor, "raised"))
           ELSE lifecycle_log)
          \o << LifecycleCall("__exit__", model, processor,
                              IF by_exception THEN "by exception" ELSE "normally") >>
    /\ UNCHANGED <<pipeline, saving, configuration, devices, batch, service>>

LifecycleInit ==
    /\ PipelineInit
    /\ SavingIdle
    /\ ConfigurationIdle
    /\ DevicesIdle
    /\ LifecycleIdle
    /\ BatchIdle
    /\ ServiceIdle

NextLifecycle ==
    \/ \E failed_at \in LoadOutcomes : LoadModel(failed_at)
    \/ UnloadModel
    \/ \E failed_at \in LoadOutcomes : Enter(failed_at)
    \/ ProcessInBlock
    \/ \E by_exception \in BOOLEAN : Exit(by_exception)

SpecLifecycle == LifecycleInit /\ [][NextLifecycle]_vars

\* C22: every process call in a `with` block finds model and processor set;
\* when the block has been left, normally or by an exception, both are None;
\* __enter__ calls load_model exactly when model is None; unload_model on a
\* wrapper that has neither leaves it so.
C22_ContextManagerLifecycle ==
    /\ block = "inside" => model = "set" /\ processor = "set"
    /\ \A i \in DOMAIN lifecycle_log :
          LET c == lifecycle_log[i]
          IN  /\ c.call = "process" => c.model = "set" /\ c.processor = "set"
              /\ c.call = "__enter__"
                    => (c.detail = "not loaded again" <=> c.model = "set")
              /\ (c.call = "__exit__" /\ i = Len(lifecycle_log))
                    => model = "None" /\ processor = "None" /\ block = "outside"
              /\ (c.call = "unload_model" /\ i = Len(lifecycle_log))
                    => model = "None" /\ processor = "None"

C22_Witness ==
    /\ Len(lifecycle_log) = 5
    /\ lifecycle_log[1].call = "load_model" /\ lifecycle_log[1].detail = "model"
    /\ lifecycle_log[2].call = "__enter__" /\ lifecycle_log[2].detail = "no"
    /\ lifecycle_log[2].processor = "set"
    /\ lifecycle_log[3].call = "process" /\ lifecycle_log[3].detail = "returned"
    /\ lifecycle_log[4].call = "process" /\ lifecycle_log[4].detail = "raised"
    /\ lifecycle_log[5].call = "__exit__"
    /\ model = "None"
    /\ processor = "None"

(***************************************************************************)
(* utils/device_manager.py                                                 *)
(***************************************************************************)
\* CUDA devices a host may have
MaxGpus == 2

Backends == {"cuda", "mps", "cpu"}

\* DeviceManager._detect_available_devices: the count and the name are
\* stored beside the three availability flags when CUDA is there
DetectAvailableDevices(hw) ==
    IF hw.cuda_count > 0
    THEN [cuda |-> TRUE, cuda_count |-> hw.cuda_count, cuda_name |-> "NVIDIA GPU",
          mps |-> hw.mps, cpu |-> TRUE]
    ELSE [cuda |-> FALSE, mps |-> hw.mps, cpu |-> TRUE]

\* DeviceManager._select_preferred_device
SelectPreferredDevice(available_devices) ==
    IF available_devices.cuda THEN "cuda"
    ELSE IF available_devices.mps THEN "mps"
    ELSE "cpu"

\* Python truth value of available_devices[key]: a flag, a count or a name
TruthOf(available_devices, key) ==
    IF key = "cuda_count" THEN available_devices[key] /= 0
    ELSE IF key = "cuda_name" THEN available_devices[key] /= ""
    ELSE available_devices[key]

DeviceManager(device_preference, hw) ==
    [device_preference |-> device_preference,
     available_devices |-> DetectAvailableDevices(hw),
     preferred_device |-> SelectPreferredDevice(DetectAvailableDevices(hw))]

\* DeviceManager.get_device
GetDevice(dm) ==
    IF dm.device_preference = "auto" THEN dm.preferred_device
    ELSE IF /\ dm.device_preference \in DOMAIN dm.available_devices
            /\ TruthOf(dm.available_devices, dm.device_preference)
    THEN dm.device_preference
    ELSE dm.preferred_device

Hardwares == [cuda_count : 0..MaxGpus, mps : BOOLEAN]

DevicePreferences ==
    {"auto", "cuda", "mps", "cpu", "CPU", "cuda:0", "tpu", "cuda_count", "cuda_name"}

\* DeviceManager(device_preference)
NewDeviceManager(device_preference) ==
    /\ device_manager' = Some(DeviceManager(device_preference, hardware))
    /\ device' = None
    /\ UNCHANGED hardware
    /\ UNCHANGED <<pipeline, saving, configuration, lifecycle, batch, service>>

\* device_manager.get_device()
GetDeviceCall ==
    /\ device_manager /= None
    /\ device' = Some(GetDevice(Val(device_manager)))
    /\ UNCHANGED <<hardware, device_manager>>
    /\ UNCHANGED <<pipeline, saving, configuration, lifecycle, batch, service>>

DeviceInit ==
    /\ PipelineInit
    /\ SavingIdle
    /\ ConfigurationIdle
    /\ hardware \in Hardwares
    /\ device_manager = None
    /\ device = None
    /\ LifecycleIdle
    /\ BatchIdle
    /\ ServiceIdle

NextDevice ==
    \/ \E device_preference \in DevicePreferences : NewDeviceManager(device_preference)
    \/ GetDeviceCall

SpecDevice == DeviceInit /\ [][NextDevice]_vars

\* what the host has
Detected(backend) ==
    \/ backend = "cpu"
    \/ backend = "cuda" /\ hardware.cuda_count > 0
    \/ backend = "mps" /\ hardware.mps
BestBackend ==
    IF Detected("cuda") THEN "cuda" ELSE IF Detected("mps") THEN "mps" ELSE "cpu"
ThePreference == Val(device_manager).device_preference

\* C23 as stated: "auto" gives the best backend of the host in the order
\* cuda, mps, cpu; a preference that names a backend the host has gives that
\* backend; any other preference gives the best backend.
C23_PreferenceHonoured ==
    device /= None
        => Val(device) = (IF ThePreference \in Backends /\ Detected(ThePreference)
                          THEN ThePreference
                          ELSE BestBackend)

\* C30 as stated: whatever the preference and the host, get_device returns
\* "cuda", "mps" or "cpu", and the host has the backend returned.
C30_ReturnsDetectedBackend ==
    device /= None => Val(device) \in Backends /\ Detected(Val(device))

(***************************************************************************)
(* One SemanticSonifier used again after unload_models (explicitly, or     *)
(* through __exit__ at the end of a `with` block); here every load_model   *)
(* succeeds.                                                               *)
(***************************************************************************)
RequestStepLoading ==
    \/ \E path \in Paths, d \in RequestedDurations : ProcessImage(path, d)
    \/ LoadBlip(TRUE)
    \/ LoadClip(TRUE)
    \/ \E open \in ImageOutcomes, infer \in InferOutcomes, text \in DecodedTexts :
          Caption(open, infer, text)
    \/ \E open \in ImageOutcomes, infer \in InferOutcomes, probs \in ProbVectors :
          Mood(open, infer, probs)
    \/ LoadMusicGen(TRUE)
    \/ ComposePrompt
    \/ \E result \in InferOutcomes : Generate(result)

NextReuse ==
    \/ RequestStepLoading
    \/ UnloadModels

SpecReuse == Init /\ [][NextReuse]_vars

\* C24 as stated: whatever process_image and unload_models calls came
\* before, the wrapper that runs a step of a request has its model loaded
\* then: BLIP for the caption, CLIP for the mood, MusicGen for the audio.
C24_LoadedOnDemand ==
    /\ pc = "caption" => blip_model = "loaded"
    /\ pc = "mood" => clip_analyzer = "loaded"
    /\ pc = "generate" => music_generator = "loaded"

(***************************************************************************)
(* The retry of MusicGenerator.process                                     *)
(***************************************************************************)
\* attempts when every one runs out of memory, from max_duration down:
\* 30, 15, 7, 3
MostAttempts == 4

\* C25 as stated: every retry runs at the floor of half the duration that
\* ran out of memory, which was above 5 and is strictly more; there are at
\* most as many attempts as halvings lead from max_duration to 5 or less;
\* and no attempt runs with a duration below 1.
C25_RetryTerminates ==
    /\ Len(attempts) <= MostAttempts
    /\ \A i \in 2..Len(attempts) :
          /\ attempts[i - 1].result = "OutOfMemory"
          /\ attempts[i - 1].duration > 5
          /\ attempts[i].duration = attempts[i - 1].duration \div 2
          /\ attempts[i].duration < attempts[i - 1].duration
    /\ \A i \in DOMAIN attempts : attempts[i].duration >= 1

(***************************************************************************)
(* SemanticSonifier.batch_process                                          *)
(***************************************************************************)
\* paths per batch
MaxBatch == 2

\* results.append(result) / results.append(None)
BatchEntry(o) == IF o.kind = "return" THEN Some(o.value) ELSE None

\* for image_path in image_paths: result = self.process_image(image_path, duration)
BatchCall ==
    /\ batch_pc = "loop"
    /\ Len(batch_results) < Len(batch_paths)
    /\ ProcessImageCall(batch_paths[Len(batch_results) + 1], duration)
    /\ batch_pc' = "wait"
    /\ UNCHANGED <<batch_paths, batch_results>>
    /\ UNCHANGED <<saving, configuration, devices, lifecycle, service>>

\* variant: the exception of a failed path leaves batch_process
BatchCollectStopsAtFailure ==
    /\ batch_pc = "wait"
    /\ pc = "idle"
    /\ IF outcome.kind = "return"
       THEN /\ batch_results' = Append(batch_results, BatchEntry(outcome))
            /\ batch_pc' = "loop"
       ELSE /\ batch_pc' = "done"
            /\ UNCHANGED batch_results
    /\ UNCHANGED batch_paths
    /\ UNCHANGED <<pipeline, saving, configuration, devices, lifecycle, service>>

\* process_image has returned or raised: try / except Exception around it
BatchCollect ==
    /\ batch_pc = "wait"
    /\ pc = "idle"
    /\ batch_results' = Append(batch_results, BatchEntry(outcome))
    /\ batch_pc' = "loop"
    /\ UNCHANGED batch_paths
    /\ UNCHANGED <<pipeline, saving, configuration, devices, lifecycle, service>>

\* return results
BatchReturn ==
    /\ batch_pc = "loop"
    /\ Len(batch_results) = Len(batch_paths)
    /\ batch_pc' = "done"
    /\ UNCHANGED <<batch_paths, batch_results>>
    /\ UNCHANGED <<pipeline, saving, configuration, devices, lifecycle, service>>

\* The steps inside process_image with fewer things going wrong: the image
\* opens, the caption is one text or a RuntimeError, the mood is one
\* ranking, the synthesis works or runs out of memory.
PlainText == CHOOSE text \in DecodedTexts : text /= <<>>
PlainProbs == CHOOSE probs \in ProbVectors : \A m, n \in MoodIndices :
                  (m /= n /\ probs[m] = probs[n]) => probs[m] = 0

PipelineStep ==
    \/ \E ok \in BOOLEAN : LoadBlip(ok)
    \/ \E ok \in BOOLEAN : LoadClip(ok)
    \/ \E infer \in {"ok", "RuntimeError"} : Caption("ok", infer, PlainText)
    \/ Mood("ok", "ok", PlainProbs)
    \/ \E ok \in BOOLEAN : LoadMusicGen(ok)
    \/ ComposePrompt
    \/ \E result \in {"ok", "OutOfMemory"} : Generate(result)

BatchPaths == UNION { [1..n -> Paths] : n \in 0..MaxBatch }

BatchInit ==
    /\ is_initialized = FALSE
    /\ blip_model = "None"
    /\ clip_analyzer = "None"
    /\ music_generator = "None"
    /\ pc = "idle"
    /\ image_path = "photo.jpg"
    /\ duration \in {None, Some(RetryAbove + 1)}
    /\ caption = None
    /\ mood = None
    /\ prompt = None
    /\ gen_arg = None
    /\ attempts = <<>>
    /\ calls = <<>>
    /\ faults = NoFaults
    /\ outcome = NoOutcome
    /\ SavingIdle
    /\ ConfigurationIdle
    /\ DevicesIdle
    /\ LifecycleIdle
    /\ batch_paths \in BatchPaths
    /\ batch_results = <<>>
    /\ batch_pc = "loop"
    /\ ServiceIdle

NextBatch ==
    \/ BatchCall
    \/ batch_pc = "wait" /\ PipelineStep
    \/ BatchCollect
    \/ BatchReturn

SpecBatch == BatchInit /\ [][NextBatch]_vars

\* C26: the list grows by one entry per path, in the order of the paths; an
\* entry is the result of process_image on its path, or None when that call
\* raised; and the list returned has an entry for every path, whatever
\* failed on the way.
C26_OneEntryPerPath ==
    /\ Len(batch_results) <= Len(batch_paths)
    /\ batch_pc = "done" => Len(batch_results) = Len(batch_paths)
    /\ batch_pc = "wait" => image_path = batch_paths[Len(batch_results) + 1]
    /\ \A i \in DOMAIN batch_results :
          /\ batch_results[i] /= None
                => Val(batch_results[i]).image_path = batch_paths[i]
          /\ batch_paths[i] \notin ExistingPaths => batch_results[i] = None
    /\ (batch_pc \in {"loop", "done"} /\ batch_results /= <<>>)
          => /\ outcome.kind \in {"return", "raise"}
             /\ outcome.kind = "raise" <=> Last(batch_results) = None
             /\ outcome.kind = "return" => Last(batch_results) = Some(outcome.value)

C26_Witness ==
    /\ batch_pc = "done"
    /\ batch_paths = <<"missing.jpg", "photo.jpg">>
    /\ batch_results[1] = None
    /\ batch_results[2] /= None
    /\ Val(batch_results[2]).image_path = "photo.jpg"

(***************************************************************************)
(* api/app.py: POST /process on the global SonifierService                 *)
(***************************************************************************)
\* requests in flight
MaxRequests == 2

allowed_types == {"image/jpeg", "image/png", "image/jpg"}

ContentTypes == {"image/png", "text/plain"}
ApiDurations == {0, 1, max_duration + 1}
FileIds == 1..MaxRequests

\* variant: only the content type is checked
ValidateContentTypeOnly(content_type, d) ==
    IF content_type \notin allowed_types THEN 400 ELSE 0

\* the two checks of the endpoint; 0 when neither rejects
Validate(content_type, d) ==
    IF content_type \notin allowed_types THEN 400
    ELSE IF d < 1 \/ d > 30 THEN 400
    ELSE 0

NewRequest(content_type, d) ==
    [content_type |-> content_type, duration |-> d, filename |-> "photo.jpg",
     at |-> "received", file_id |-> 0, status |-> 0]

\* str(uuid.uuid4()): an id no request has had
UsedIds == { requests[r].file_id : r \in DOMAIN requests }
FreshIds == FileIds \ UsedIds

UploadPath(r) == <<"uploads", requests[r].file_id, requests[r].filename>>
AudioPath(r) == <<"outputs/web_audio", requests[r].file_id, "generated.wav">>

\* The endpoint and SonifierService.process_image up to `await
\* image_file.read()`: the checks, the names, open(image_path, "wb").
ApiAccept(r) ==
    /\ running = 0
    /\ requests[r].at = "received"
    /\ LET rejected == Validate(requests[r].content_type, requests[r].duration)
       IN  IF rejected /= 0
           THEN /\ requests' = [requests EXCEPT ![r].at = "done",
                                                ![r].status = rejected]
                /\ UNCHANGED uploads
           ELSE \E id \in FreshIds :
                   /\ requests' = [requests EXCEPT ![r].at = "reading",
                                                   ![r].file_id = id]
                   /\ uploads' = uploads \cup
                          {[path |-> <<"uploads", id, requests[r].filename>>,
                            owner |-> r]}
    /\ UNCHANGED <<outputs, service_sonifier, instances, running>>
    /\ UNCHANGED <<pipeline, saving, configuration, devices, lifecycle, batch>>

\* the image written by this request, as process_image finds it: a file
\* that exists
Uploaded == CHOOSE path \in ExistingPaths : TRUE

\* variant: the pipeline is handed to a worker and the loop is free again
ApiResumeOffLoop(r) ==
    /\ running = 0
    /\ requests[r].at = "reading"
    /\ requests' = [requests EXCEPT ![r].at = "pipeline"]
    /\ service_sonifier' = "sonifier"
    /\ instances' = IF service_sonifier = "None" THEN instances + 1 ELSE instances
    /\ ProcessImageCall(Uploaded, Some(requests[r].duration))
    /\ running' = 0
    /\ UNCHANGED <<uploads, outputs>>
    /\ UNCHANGED <<saving, configuration, devices, lifecycle, batch>>

\* After the read: buffer.write(content), get_sonifier(), and the call of
\* sonifier.process_image(str(image_path), duration), which runs on the
\* event loop.
ApiResume(r) ==
    /\ running = 0
    /\ requests[r].at = "reading"
    /\ requests' = [requests EXCEPT ![r].at = "pipeline"]
    /\ service_sonifier' = "sonifier"
    /\ instances' = IF service_sonifier = "None" THEN instances + 1 ELSE instances
    /\ ProcessImageCall(Uploaded, Some(requests[r].duration))
    /\ running' = r
    /\ UNCHANGED <<uploads, outputs>>
    /\ UNCHANGED <<saving, configuration, devices, lifecycle, batch>>

\* process_image has returned or raised: wavfile.write, image_path.unlink()
\* and the response, or HTTPException(500) from the except clause
ApiFinish(r, written) ==
    /\ running = r
    /\ requests[r].at = "pipeline"
    /\ pc = "idle"
    /\ IF outcome.kind = "return" /\ written
       THEN /\ outputs' = outputs \cup {[path |-> AudioPath(r), owner |-> r]}
            /\ uploads' = { f \in uploads : f.path /= UploadPath(r) }
            /\ requests' = [requests EXCEPT ![r].at = "done", ![r].status = 200]
       ELSE /\ requests' = [requests EXCEPT ![r].at = "done", ![r].status = 500]
            /\ UNCHANGED <<uploads, outputs>>
    /\ running' = 0
    /\ UNCHANGED <<service_sonifier, instances>>
    /\ UNCHANGED <<pipeline, saving, configuration, devices, lifecycle, batch>>

RequestsInFlight ==
    UNION { [1..n -> { NewRequest(content_type, d) :
                          content_type \in ContentTypes, d \in ApiDurations }]
            : n \in 1..MaxRequests }

ApiInit ==
    /\ PipelineInit
    /\ SavingIdle
    /\ ConfigurationIdle
    /\ DevicesIdle
    /\ LifecycleIdle
    /\ BatchIdle
    /\ requests \in RequestsInFlight
    /\ uploads = {}
    /\ outputs = {}
    /\ service_sonifier = "None"
    /\ instances = 0
    /\ running = 0

NextApi ==
    \/ \E r \in DOMAIN requests : ApiAccept(r)
    \/ \E r \in DOMAIN requests : ApiResume(r)
    \/ PipelineStep
    \/ \E r \in DOMAIN requests, written \in BOOLEAN : ApiFinish(r, written)

SpecApi == ApiInit /\ [][NextApi]_vars

InRange(r) ==
    /\ requests[r].content_type \in allowed_types
    /\ requests[r].duration >= 1
    /\ requests[r].duration <= 30

\* C27: a request with a content type outside the allowed ones or a
\* duration outside 1..30 ends with status 400, with no upload written for
\* it and, when no other request got further, no sonifier created or
\* called; the duration of every process_image call is in 1..30.
C27_RejectedBeforeAnyWork ==
    /\ \A r \in DOMAIN requests :
          ~InRange(r) =>
             /\ requests[r].at \in {"received", "done"}
             /\ requests[r].at = "done" => requests[r].status = 400
             /\ requests[r].file_id = 0
             /\ \A f \in uploads \cup outputs : f.owner /= r
             /\ running /= r
    /\ (\A r \in DOMAIN requests : ~InRange(r))
          => /\ service_sonifier = "None"
             /\ instances = 0
             /\ is_initialized = FALSE
             /\ pc = "idle"
             /\ calls = <<>>
             /\ uploads = {}
    /\ is_initialized => /\ duration /= None
                         /\ Val(duration) >= 1
                         /\ Val(duration) <= 30

C27_Witness ==
    /\ Len(requests) = 2
    /\ requests[1].duration = 0 /\ requests[1].status = 400
    /\ requests[2].duration = max_duration + 1 /\ requests[2].status = 400
    /\ requests[1].content_type \in allowed_types
    /\ requests[2].content_type \in allowed_types

\* C28 as stated: a request that is finished has left no file in uploads,
\* whether it ended with 200 or with 500.
C28_UploadsDeleted ==
    \A r \in DOMAIN requests :
       requests[r].at = "done" => \A f \in uploads : f.owner /= r

\* C29: one SemanticSonifier at most; while a request is between its call
\* of process_image and its response it holds the event loop, it is the
\* only such request and no other request takes a step; the requests have
\* different upload and audio paths, and every file is at the path of the
\* request that wrote it.
C29_RunsNeverOverlap ==
    /\ [](/\ instances <= 1
          /\ \A r, q \in DOMAIN requests :
                (requests[r].at = "pipeline" /\ requests[q].at = "pipeline")
                   => r = q
          /\ \A r \in DOMAIN requests :
                requests[r].at = "pipeline" <=> running = r
          /\ pc /= "idle" => running /= 0
          /\ \A r, q \in DOMAIN requests :
                (r /= q /\ requests[r].file_id /= 0 /\ requests[q].file_id /= 0)
                   => /\ UploadPath(r) /= UploadPath(q)
                      /\ AudioPath(r) /= AudioPath(q)
          /\ \A f \in uploads : f.path = UploadPath(f.owner)
          /\ \A f \in outputs : f.path = AudioPath(f.owner))
    /\ [][\A r \in DOMAIN requests :
             requests[r].at = "pipeline"
                => \A q \in DOMAIN requests \ {r} : requests'[q] = requests[q]]_vars

C29_Witness ==
    /\ Len(requests) = 2
    /\ requests[1].at = "pipeline"
    /\ requests[2].at = "reading"
    /\ pc = "generate"
    /\ running = 1
====
